---- MODULE Spec2Model ----
(***************************************************************************)
(* Model of the order-optimisation pipeline of the karaage-tencho-kun      *)
(* plugin: the inventory store (tools/inventory_manager.py on top of       *)
(* tools/db_utils.py), the demand model (tools/demand_forecast.py) and the *)
(* order optimizer (tools/order_optimizer.py).                             *)
(*                                                                         *)
(* Conventions                                                             *)
(*   - time is counted in ticks of two minutes (TicksPerHour ticks make an *)
(*     hour); hours rounded to one decimal are counted in tenths;          *)
(*   - a tool parameter is a tagged value (missing, null, string, int), so *)
(*     that Python's truthiness and type errors are part of the model;     *)
(*   - strings of the program are written in ASCII: "hanbai" is the        *)
(*     default reason (sale), the kanji of the disposal keywords are the   *)
(*     tokens "hai","ki2" (disposal) and "ki","gen" (expiry date): one     *)
(*     token per character, "ki", "ki2" and "ki3" being three kanji read   *)
(*     alike;                                                              *)
(*   - a raised Python exception is the `raise` field of what a handler    *)
(*     returns: the handlers are operators that return a result or a       *)
(*     raise, and the _invoke wrappers turn them into yielded messages.    *)
(***************************************************************************)
EXTENDS Integers, Sequences, FiniteSets, TLC

VARIABLES
    conn,             \* DuckDBManager._conn: "None", "ready" or "no_tables"
    seed_file,        \* the seed JSON the manager reads (or "unreadable")
    store,            \* file_store._store: file_id -> entry
    callers,          \* the calls in flight: caller -> its position and locals
    inventory,        \* table inventory: item_id -> row
    stock_movements,  \* table stock_movements, in insertion order
    now,              \* the wall clock, in ticks
    model_cache,      \* demand_forecast._model_cache
    artifact,         \* the pickled model file (or "unreadable")
    call,             \* the parameter bag of the last invocation
    messages,         \* what the last invocation yielded
    raised            \* the exception that escaped the last invocation

vars == <<conn, seed_file, store, callers, inventory, stock_movements, now,
          model_cache, artifact, call, messages, raised>>

-----------------------------------------------------------------------------
(* Bounds of the exploration *)

MaxQuantity == 4
MaxMovements == 3
MaxNow == 1

(* Units and program constants *)

TicksPerHour == 30
DefaultMinStockLevel == 5
DefaultReorderPoint == 10
FallbackExpiryHours == 8
OrderBuffer == 5

-----------------------------------------------------------------------------
(* Tool parameters: tagged values *)

Missing == [t |-> "missing", s |-> "", n |-> 0]
Null == [t |-> "null", s |-> "", n |-> 0]
StrVal(x) == [t |-> "str", s |-> x, n |-> 0]
IntVal(k) == [t |-> "int", s |-> "", n |-> k]

\* Python truthiness of a parameter value
Truthy(v) == \/ v.t = "str" /\ v.s # ""
             \/ v.t = "int" /\ v.n # 0

\* dict.get(key, default)
Get(v, default) == IF v.t = "missing" THEN default ELSE v

\* str.strip() on the strings the model enumerates
Strip(s) ==
    CASE s = " INV002 " -> "INV002"
      [] s = " REMOVE_STOCK " -> "REMOVE_STOCK"
      [] s = " Storm " -> "Storm"
      [] s = "  " -> ""
      [] OTHER -> s

\* str.lower() on the strings the model enumerates
Lower(s) ==
    CASE s = "REMOVE_STOCK" -> "remove_stock"
      [] s = "Storm" -> "storm"
      [] s = " Storm " -> " storm "
      [] s = "Cloudy" -> "cloudy"
      [] OTHER -> s

\* params.get(key, "").strip() if params.get(key) else ""
\* A truthy value that is no string has no strip(): AttributeError.
StrParam(v) ==
    IF ~Truthy(v) THEN [raise |-> "none", s |-> ""]
    ELSE IF v.t = "str" THEN [raise |-> "none", s |-> Strip(v.s)]
    ELSE [raise |-> "AttributeError", s |-> ""]

\* A check that lets a quantity of zero pass
QuantityCheckNegative(v) ==
    IF v.t \in {"missing", "null"} THEN "invalid"
    ELSE IF v.t = "str" THEN "TypeError"
    ELSE IF v.n < 0 THEN "invalid"
    ELSE "valid"

\* `not quantity or quantity <= 0`: "invalid", "valid", or a TypeError when a
\* non-empty string is compared with 0.
QuantityCheck(v) ==
    IF ~Truthy(v) THEN "invalid"
    ELSE IF v.t = "str" THEN "TypeError"
    ELSE IF v.n <= 0 THEN "invalid"
    ELSE "valid"

-----------------------------------------------------------------------------
(* The seed file and the lazily opened connection *)

SeedRow(name, cat, qty, minl, rp, ago, exp) ==
    [item_name |-> name, category |-> cat, quantity |-> qty,
     min_stock_level |-> minl, reorder_point |-> rp,
     stocked_hours_ago |-> ago, expires_in_ticks |-> exp]

\* The seed files explored: two stocked items and one past movement.
SeedFiles ==
    { [readable |-> TRUE,
       sample_inventory |->
          ( "INV001" :> SeedRow("ume onigiri", "onigiri", q1, 5, 10, 1, e1)
         @@ "INV002" :> SeedRow("nori bento", "bento", q2, 1, 3, 2, 8 * TicksPerHour) ),
       expiration_hours |-> ("onigiri" :> 12 @@ "bento" :> 6),
       markdown_rules |-> [high |-> 2, medium |-> 4],
       sample_movements |->
          << [movement_id |-> StrVal("MOV001"), item_id |-> "INV001",
              item_name |-> "ume onigiri", movement_type |-> "in",
              quantity |-> 2, reason |-> <<"nyu", "ka">>, hours_ago |-> 1] >>]
      : q1 \in {0, 2}, q2 \in {3}, e1 \in {4 * TicksPerHour, 24 * TicksPerHour} }

\* A seed file that is missing or is no JSON
UnreadableSeed ==
    [readable |-> FALSE, sample_inventory |-> <<>>, expiration_hours |-> <<>>,
     markdown_rules |-> [high |-> 0, medium |-> 0], sample_movements |-> <<>>]

\* _init_schema: the rows inserted from the seed, dated from the current time
InitInventory(sd, t) ==
    [id \in DOMAIN sd.sample_inventory |->
        LET it == sd.sample_inventory[id] IN
        [item_name |-> it.item_name, category |-> it.category,
         quantity |-> it.quantity,
         min_stock_level |-> it.min_stock_level,
         reorder_point |-> it.reorder_point,
         stocked_at |-> t - it.stocked_hours_ago * TicksPerHour,
         expires_at |-> t + it.expires_in_ticks]]

InitMovements(sd, t) ==
    [i \in 1..Len(sd.sample_movements) |->
        LET m == sd.sample_movements[i] IN
        [movement_id |-> m.movement_id, item_id |-> m.item_id,
         item_name |-> m.item_name, movement_type |-> m.movement_type,
         quantity |-> m.quantity, reason |-> m.reason,
         created_at |-> t - m.hours_ago * TicksPerHour]]

\* DuckDBManager.get_connection followed by the first statement on it: the
\* database the handler works on. With an unreadable seed file the connection
\* object is kept (assigned before the seed is read) but holds no tables, and
\* every later statement fails.
GetConnection ==
    IF conn = "ready"
    THEN [raise |-> "none", conn |-> "ready",
          inventory |-> inventory, stock_movements |-> stock_movements]
    ELSE IF conn = "None" /\ seed_file.readable
    THEN [raise |-> "none", conn |-> "ready",
          inventory |-> InitInventory(seed_file, now),
          stock_movements |-> InitMovements(seed_file, now)]
    ELSE [raise |-> IF conn = "None" THEN "FileNotFoundError" ELSE "CatalogException",
          conn |-> "no_tables",
          inventory |-> inventory, stock_movements |-> stock_movements]

-----------------------------------------------------------------------------
(* InventoryManagerTool: the two mutations *)

\* What a handler hands back: a raised exception or a result, and the
\* database it leaves behind.
Outcome(exc, result, c, inv, movs) ==
    [raise |-> exc, result |-> result, conn |-> c,
     inventory |-> inv, stock_movements |-> movs]

ErrorResult(text, values) == [error |-> [text |-> text, values |-> values]]

\* The ledger rows after one more INSERT INTO stock_movements
InsertMovementTwice(movs, mov) ==
    Append(Append(movs, mov), [mov EXCEPT !.movement_id.n = @ + 1])

InsertMovement(movs, mov) == Append(movs, mov)

\* _generate_movement_id: a random identifier, taken to be fresh
GenerateMovementId(movs) == [t |-> "uuid", s |-> "", n |-> Len(movs) + 1]

Movement(movs, item_id, item_name, type, quantity, reason, t) ==
    [movement_id |-> GenerateMovementId(movs), item_id |-> item_id,
     item_name |-> item_name, movement_type |-> type,
     quantity |-> quantity, reason |-> reason, created_at |-> t]

\* CAST(SUBSTR(item_id, 4) AS INTEGER) on the ids the model enumerates;
\* -1 stands for a suffix that is no integer (the statement fails).
IdSuffix(id) ==
    CASE id = "INV001" -> 1
      [] id = "INV002" -> 2
      [] id = "INV003" -> 3
      [] id = "INV004" -> 4
      [] id = "INV005" -> 5
      [] id = "INV007" -> 7
      [] id = "INV008" -> 8
      [] id = "INV009" -> 9
      [] id = "SKU006" -> 6
      [] OTHER -> -1

\* f"INV{new_num:03d}"
FormatItemId(num) ==
    CASE num = 1 -> "INV001"
      [] num = 2 -> "INV002"
      [] num = 3 -> "INV003"
      [] num = 4 -> "INV004"
      [] num = 5 -> "INV005"
      [] num = 6 -> "INV006"
      [] num = 7 -> "INV007"
      [] num = 8 -> "INV008"
      [] num = 9 -> "INV009"
      [] OTHER -> "INV010"

SetMax(S) == CHOOSE x \in S : \A y \in S : y <= x

\* Reasons are sequences of characters; `kw in reason` is substring search.
Contains(reason, kw) ==
    \E i \in 1..(Len(reason) - Len(kw) + 1) :
        SubSeq(reason, i, i + Len(kw) - 1) = kw

DefaultReason == <<"han", "bai">>
RestockReason == <<"nyu", "ka">>
NewStockReason == <<"shin", "ki3", "nyu", "ka">>
DisposalKeyword == <<"hai", "ki2">>
ExpiryKeyword == <<"ki", "gen">>

\* A classification that knows the disposal keyword only
MovementTypeDisposalOnly(reason) ==
    IF Contains(reason, DisposalKeyword) THEN "expired" ELSE "out"

\* `"<disposal>" in reason or "<expiry>" in reason`
MovementType(reason) ==
    IF Contains(reason, DisposalKeyword) \/ Contains(reason, ExpiryKeyword)
    THEN "expired" ELSE "out"

\* A restock that updates the quantity and records no movement
AddToExistingUnrecorded(db, item_id, quantity) ==
    LET existing == db.inventory[item_id]
        old_qty == existing.quantity
        new_qty == old_qty + quantity
        mov == Movement(db.stock_movements, item_id, existing.item_name,
                        "in", quantity, RestockReason, now)
    IN Outcome("none",
               [success |-> TRUE, action |-> "add_stock", item_id |-> item_id,
                item_name |-> existing.item_name,
                previous_quantity |-> old_qty, added_quantity |-> quantity,
                new_quantity |-> new_qty, movement_id |-> mov.movement_id,
                timestamp |-> now],
               db.conn,
               [db.inventory EXCEPT ![item_id].quantity = new_qty],
               db.stock_movements)

\* _action_add_stock, existing item (the UPDATE and the INSERT)
AddToExisting(db, item_id, quantity) ==
    LET existing == db.inventory[item_id]
        old_qty == existing.quantity
        new_qty == old_qty + quantity
        mov == Movement(db.stock_movements, item_id, existing.item_name,
                        "in", quantity, RestockReason, now)
    IN Outcome("none",
               [success |-> TRUE, action |-> "add_stock", item_id |-> item_id,
                item_name |-> existing.item_name,
                previous_quantity |-> old_qty, added_quantity |-> quantity,
                new_quantity |-> new_qty, movement_id |-> mov.movement_id,
                timestamp |-> now],
               db.conn,
               [db.inventory EXCEPT ![item_id].quantity = new_qty],
               InsertMovement(db.stock_movements, mov))

\* _action_add_stock, new item
AddNewItem(db, given_id, item_name, category, quantity, expires_param) ==
    LET sd == seed_file
        suffixes == {IdSuffix(id) : id \in DOMAIN db.inventory}
        bad_cast == given_id = "" /\ -1 \in suffixes
        max_id == IF suffixes = {} THEN 0 ELSE SetMax(suffixes)
        item_id == IF given_id = "" THEN FormatItemId(max_id + 1) ELSE given_id
        expires_in_hours ==
            IF expires_param.t \in {"missing", "null"}
            THEN IF category \in DOMAIN sd.expiration_hours
                 THEN sd.expiration_hours[category] ELSE FallbackExpiryHours
            ELSE expires_param.n
        expires_at == now + expires_in_hours * TicksPerHour
        mov == Movement(db.stock_movements, item_id, item_name,
                        "in", quantity, NewStockReason, now)
    IN  IF item_name = ""
        THEN Outcome("none", ErrorResult("item_name required", <<>>),
                     db.conn, db.inventory, db.stock_movements)
        ELSE IF category = ""
        THEN Outcome("none", ErrorResult("category required", <<>>),
                     db.conn, db.inventory, db.stock_movements)
        ELSE IF bad_cast
        THEN Outcome("ConversionException", <<>>,
                     db.conn, db.inventory, db.stock_movements)
        ELSE IF expires_param.t = "str"
        THEN Outcome("TypeError", <<>>,
                     db.conn, db.inventory, db.stock_movements)
        ELSE Outcome("none",
                     [success |-> TRUE, action |-> "add_stock",
                      item_id |-> item_id, item_name |-> item_name,
                      category |-> category, quantity |-> quantity,
                      expires_at |-> expires_at,
                      movement_id |-> mov.movement_id, timestamp |-> now],
                     db.conn,
                     (item_id :> [item_name |-> item_name, category |-> category,
                                  quantity |-> quantity,
                                  min_stock_level |-> DefaultMinStockLevel,
                                  reorder_point |-> DefaultReorderPoint,
                                  stocked_at |-> now, expires_at |-> expires_at])
                        @@ db.inventory,
                     InsertMovement(db.stock_movements, mov))

\* _action_add_stock
ActionAddStock(params) ==
    LET item_id == StrParam(params.item_id)
        item_name == StrParam(params.item_name)
        category == StrParam(params.category)
        quantity == params.quantity
        untouched(exc, result) ==
            Outcome(exc, result, conn, inventory, stock_movements)
    IN  IF item_id.raise # "none" THEN untouched(item_id.raise, <<>>)
        ELSE IF item_name.raise # "none" THEN untouched(item_name.raise, <<>>)
        ELSE IF category.raise # "none" THEN untouched(category.raise, <<>>)
        ELSE IF QuantityCheck(quantity) = "TypeError" THEN untouched("TypeError", <<>>)
        ELSE IF QuantityCheck(quantity) = "invalid"
        THEN untouched("none", ErrorResult("quantity must be 1 or more", <<>>))
        ELSE LET db == GetConnection IN
             IF db.raise # "none"
             THEN Outcome(db.raise, <<>>, db.conn, db.inventory, db.stock_movements)
             ELSE IF item_id.s \in DOMAIN db.inventory
             THEN AddToExisting(db, item_id.s, quantity.n)
             ELSE AddNewItem(db, item_id.s, item_name.s, category.s,
                             quantity.n, params.expires_in_hours)

\* str.strip() on a sequence of characters
StripChars(r) ==
    LET inked == {i \in 1..Len(r) : r[i] # " "}
    IN  IF inked = {} THEN <<>>
        ELSE SubSeq(r, CHOOSE i \in inked : \A j \in inked : i <= j,
                       CHOOSE i \in inked : \A j \in inked : j <= i)

\* params.get("reason", default).strip() if params.get("reason") else default
ReasonParam(v) ==
    IF v.t = "missing" \/ v.t = "null" \/ (v.t = "int" /\ v.n = 0)
       \/ (v.t = "reason" /\ v.r = <<>>)
    THEN [raise |-> "none", r |-> DefaultReason]
    ELSE IF v.t = "reason" THEN [raise |-> "none", r |-> StripChars(v.r)]
    ELSE [raise |-> "AttributeError", r |-> <<>>]

InsufficientStockDropped(quantity, old_qty) == FALSE

\* `if quantity > old_qty` of _action_remove_stock
InsufficientStock(quantity, old_qty) == quantity > old_qty

\* A rejection that enters the refused removal in the ledger
ItemNotFoundRecorded(db, item_id, quantity) ==
    Outcome("none", ErrorResult("item not found", <<item_id>>),
            db.conn, db.inventory,
            InsertMovement(db.stock_movements,
                           Movement(db.stock_movements, item_id, "", "out",
                                    quantity, DefaultReason, now)))

\* `if not existing: return {"error": ...}` of _action_remove_stock
ItemNotFound(db, item_id, quantity) ==
    Outcome("none", ErrorResult("item not found", <<item_id>>),
            db.conn, db.inventory, db.stock_movements)

\* An update that drops the row of an item that has run out
SetQuantityOrDelete(inv, item_id, new_qty) ==
    IF new_qty = 0
    THEN [id \in DOMAIN inv \ {item_id} |-> inv[id]]
    ELSE [inv EXCEPT ![item_id].quantity = new_qty]

\* UPDATE inventory SET quantity = ? WHERE item_id = ? of _action_remove_stock
SetQuantity(inv, item_id, new_qty) == [inv EXCEPT ![item_id].quantity = new_qty]

\* _action_remove_stock
ActionRemoveStock(params) ==
    LET item_id == StrParam(params.item_id)
        quantity == params.quantity
        reason == ReasonParam(params.reason)
        untouched(exc, result) ==
            Outcome(exc, result, conn, inventory, stock_movements)
    IN  IF item_id.raise # "none" THEN untouched(item_id.raise, <<>>)
        ELSE IF reason.raise # "none" THEN untouched(reason.raise, <<>>)
        ELSE IF item_id.s = ""
        THEN untouched("none", ErrorResult("item_id required", <<>>))
        ELSE IF QuantityCheck(quantity) = "TypeError" THEN untouched("TypeError", <<>>)
        ELSE IF QuantityCheck(quantity) = "invalid"
        THEN untouched("none", ErrorResult("quantity must be 1 or more", <<>>))
        ELSE LET db == GetConnection IN
             IF db.raise # "none"
             THEN Outcome(db.raise, <<>>, db.conn, db.inventory, db.stock_movements)
             ELSE IF item_id.s \notin DOMAIN db.inventory
             THEN ItemNotFound(db, item_id.s, quantity.n)
             ELSE LET existing == db.inventory[item_id.s]
                      old_qty == existing.quantity
                      new_qty == old_qty - quantity.n
                      mov == Movement(db.stock_movements, item_id.s,
                                      existing.item_name, MovementType(reason.r),
                                      quantity.n, reason.r, now)
                  IN IF InsufficientStock(quantity.n, old_qty)
                     THEN Outcome("none",
                                  ErrorResult("insufficient stock",
                                              <<old_qty, quantity.n>>),
                                  db.conn, db.inventory, db.stock_movements)
                     ELSE Outcome("none",
                                  [success |-> TRUE, action |-> "remove_stock",
                                   item_id |-> item_id.s,
                                   item_name |-> existing.item_name,
                                   previous_quantity |-> old_qty,
                                   removed_quantity |-> quantity.n,
                                   new_quantity |-> new_qty,
                                   reason |-> reason.r,
                                   movement_id |-> mov.movement_id,
                                   timestamp |-> now],
                                  db.conn,
                                  SetQuantity(db.inventory, item_id.s, new_qty),
                                  InsertMovement(db.stock_movements, mov))

-----------------------------------------------------------------------------
(* InventoryManagerTool: the queries *)

\* The order of strings (ORDER BY on a VARCHAR column, Python's sort of str)
\* on the names the model enumerates
Collate(s) ==
    CASE s = "bento" -> 1
      [] s = "dessert" -> 2
      [] s = "nori bento" -> 3
      [] s = "onigiri" -> 4
      [] s = "pudding" -> 5
      [] s = "sandwich" -> 6
      [] s = "tuna onigiri" -> 7
      [] s = "ume onigiri" -> 8
      [] OTHER -> 9

\* The orders in which a table scan may return the rows of a finite set: an
\* ORDER BY leaves the order of rows with equal keys to the database.
Perms(S) ==
    { f \in [1..Cardinality(S) -> S] : \A i, j \in 1..Cardinality(S) : f[i] = f[j] => i = j }

Position(seq, x) == CHOOSE i \in 1..Len(seq) : seq[i] = x

Filter(seq, Keep(_)) == SelectSeq(seq, Keep)

\* SELECT ... ORDER BY: the rows of `scan` that satisfy Keep, sorted by Before,
\* rows with equal keys in scan order.
OrderBy(scan, Keep(_), Before(_, _)) ==
    LET kept == SelectSeq(scan, Keep)
        total(a, b) == \/ Before(a, b)
                       \/ ~Before(b, a) /\ Position(scan, a) < Position(scan, b)
    IN SortSeq(kept, total)

\* (exp_dt - now).total_seconds() / 3600, in ticks
RemainingTicks(row) == row.expires_at - now

\* round(hours, 1), from ticks to tenths of an hour (a tenth is an odd number
\* of ticks, so no value lies halfway)
Round1(ticks) ==
    LET per_tenth == TicksPerHour \div 10
    IN (2 * ticks + per_tenth) \div (2 * per_tenth)

\* Comparison of an hour count in ticks with a whole number of hours
Hours(h) == h * TicksPerHour

\* An optional category filter: `AND category = ?` when a category is given
CategoryMatches(inv, id, category) ==
    category = "" \/ inv[id].category = category

ByCategoryAndName(inv, a, b) ==
    \/ Collate(inv[a].category) < Collate(inv[b].category)
    \/ /\ inv[a].category = inv[b].category
       /\ Collate(inv[a].item_name) < Collate(inv[b].item_name)

SeqSum(seq) ==
    LET sum[i \in 0..Len(seq)] == IF i = 0 THEN 0 ELSE sum[i - 1] + seq[i]
    IN sum[Len(seq)]

SeqToSet(seq) == {seq[i] : i \in 1..Len(seq)}

\* _action_list
ActionList(params, scan) ==
    LET category == StrParam(params.category)
        db == GetConnection
        inv == db.inventory
        keep(id) == inv[id].quantity > 0 /\ CategoryMatches(inv, id, category.s)
        before(a, b) == ByCategoryAndName(inv, a, b)
        rows == OrderBy(scan, keep, before)
        items == [i \in 1..Len(rows) |->
                    LET r == inv[rows[i]] IN
                    [item_id |-> rows[i], item_name |-> r.item_name,
                     category |-> r.category, quantity |-> r.quantity,
                     min_stock_level |-> r.min_stock_level,
                     reorder_point |-> r.reorder_point,
                     expires_at |-> r.expires_at,
                     remaining_hours |-> Round1(RemainingTicks(r))]]
        cats == {items[i].category : i \in 1..Len(items)}
        of_cat(c) == SelectSeq(items, LAMBDA it : it.category = c)
    IN  IF category.raise # "none"
        THEN Outcome(category.raise, <<>>, conn, inventory, stock_movements)
        ELSE IF db.raise # "none"
        THEN Outcome(db.raise, <<>>, db.conn, db.inventory, db.stock_movements)
        ELSE Outcome("none",
                     [current_time |-> now, items |-> items,
                      total_items |-> Len(items),
                      category_summary |->
                        [c \in cats |->
                           [count |-> Len(of_cat(c)),
                            total_quantity |->
                              SeqSum([i \in 1..Len(of_cat(c)) |-> of_cat(c)[i].quantity])]]],
                     db.conn, db.inventory, db.stock_movements)

\* A classification whose thresholds belong to the milder class
GetUrgencyBelow(remaining_ticks, rules) ==
    IF remaining_ticks < Hours(rules.high) THEN "high"
    ELSE IF remaining_ticks < Hours(rules.medium) THEN "medium"
    ELSE "low"

\* _get_urgency
GetUrgency(remaining_ticks, rules) ==
    IF remaining_ticks <= Hours(rules.high) THEN "high"
    ELSE IF remaining_ticks <= Hours(rules.medium) THEN "medium"
    ELSE "low"

\* params.get("urgency", "").strip().lower() if params.get("urgency") else ""
UrgencyParam(v) ==
    LET u == StrParam(v) IN [raise |-> u.raise, s |-> Lower(u.s)]

\* _action_check_expiration
ActionCheckExpiration(params, scan) ==
    LET category == StrParam(params.category)
        urgency_filter == UrgencyParam(params.urgency)
        hours_threshold == params.hours_threshold
        has_threshold == hours_threshold.t \notin {"missing", "null"}
        db == GetConnection
        inv == db.inventory
        rules == seed_file.markdown_rules
        keep(id) == inv[id].quantity > 0 /\ CategoryMatches(inv, id, category.s)
        before(a, b) == inv[a].expires_at < inv[b].expires_at
        rows == OrderBy(scan, keep, before)
        urgency(id) == GetUrgency(RemainingTicks(inv[id]), rules)
        shown(id) ==
            /\ ~(has_threshold /\ RemainingTicks(inv[id]) > Hours(hours_threshold.n))
            /\ ~(urgency_filter.s # "" /\ urgency(id) # urgency_filter.s)
        alerts == [i \in 1..Len(SelectSeq(rows, shown)) |->
                     LET id == SelectSeq(rows, shown)[i] IN
                     [item_id |-> id, item_name |-> inv[id].item_name,
                      category |-> inv[id].category,
                      expires_at |-> inv[id].expires_at,
                      remaining_hours |-> Round1(RemainingTicks(inv[id])),
                      quantity |-> inv[id].quantity,
                      urgency |-> urgency(id)]]
        count(u) == Len(SelectSeq(alerts, LAMBDA al : al.urgency = u))
    IN  IF category.raise # "none"
        THEN Outcome(category.raise, <<>>, conn, inventory, stock_movements)
        ELSE IF urgency_filter.raise # "none"
        THEN Outcome(urgency_filter.raise, <<>>, conn, inventory, stock_movements)
        ELSE IF ~seed_file.readable
        THEN Outcome("FileNotFoundError", <<>>, conn, inventory, stock_movements)
        ELSE IF db.raise # "none"
        THEN Outcome(db.raise, <<>>, db.conn, db.inventory, db.stock_movements)
        ELSE IF has_threshold /\ hours_threshold.t # "int" /\ Len(rows) > 0
        THEN Outcome("TypeError", <<>>, db.conn, db.inventory, db.stock_movements)
        ELSE Outcome("none",
                     [current_time |-> now, alerts |-> alerts,
                      summary |-> [high_urgency |-> count("high"),
                                   medium_urgency |-> count("medium"),
                                   low_urgency |-> count("low"),
                                   total |-> Len(alerts)]],
                     db.conn, db.inventory, db.stock_movements)

Max(a, b) == IF a >= b THEN a ELSE b

Min(a, b) == IF a <= b THEN a ELSE b

\* _action_low_stock_alert
ActionLowStockAlert(params, scan) ==
    LET category == StrParam(params.category)
        db == GetConnection
        inv == db.inventory
        shortage(id) == inv[id].reorder_point - inv[id].quantity
        keep(id) == /\ inv[id].quantity <= inv[id].reorder_point
                    /\ CategoryMatches(inv, id, category.s)
        before(a, b) == \/ shortage(a) > shortage(b)
                        \/ shortage(a) = shortage(b) /\ ByCategoryAndName(inv, a, b)
        rows == OrderBy(scan, keep, before)
        alerts == [i \in 1..Len(rows) |->
                     LET r == inv[rows[i]] IN
                     [item_id |-> rows[i], item_name |-> r.item_name,
                      category |-> r.category, current_quantity |-> r.quantity,
                      min_stock_level |-> r.min_stock_level,
                      reorder_point |-> r.reorder_point,
                      shortage |-> shortage(rows[i]),
                      recommended_order_quantity |->
                         Max(r.reorder_point - r.quantity + OrderBuffer, 0),
                      alert_level |-> IF r.quantity <= r.min_stock_level
                                      THEN "critical" ELSE "warning"]]
        count(l) == Len(SelectSeq(alerts, LAMBDA al : al.alert_level = l))
    IN  IF category.raise # "none"
        THEN Outcome(category.raise, <<>>, conn, inventory, stock_movements)
        ELSE IF db.raise # "none"
        THEN Outcome(db.raise, <<>>, db.conn, db.inventory, db.stock_movements)
        ELSE Outcome("none",
                     [current_time |-> now, alerts |-> alerts,
                      summary |-> [critical_count |-> count("critical"),
                                   warning_count |-> count("warning"),
                                   total |-> Len(alerts)]],
                     db.conn, db.inventory, db.stock_movements)

\* An expiry rule whose thresholds belong to the shorter class
ExpiryAdjustedOrderInclusive(remaining_ticks, base_order) ==
    IF remaining_ticks <= Hours(4)
    THEN [quantity |-> 0, note |-> "expiry imminent, order withheld"]
    ELSE IF remaining_ticks <= Hours(8)
    THEN [quantity |-> Max(0, base_order \div 2),
          note |-> "near expiry, small order recommended"]
    ELSE [quantity |-> Max(0, base_order), note |-> "normal order"]

\* The expiry rule of _action_order_recommendation: quantity and note
ExpiryAdjustedOrder(remaining_ticks, base_order) ==
    IF remaining_ticks < Hours(4)
    THEN [quantity |-> 0, note |-> "expiry imminent, order withheld"]
    ELSE IF remaining_ticks < Hours(8)
    THEN [quantity |-> Max(0, base_order \div 2),
          note |-> "near expiry, small order recommended"]
    ELSE [quantity |-> Max(0, base_order), note |-> "normal order"]

\* _action_order_recommendation
ActionOrderRecommendation(params, scan) ==
    LET db == GetConnection
        inv == db.inventory
        shortage(id) == inv[id].reorder_point - inv[id].quantity
        keep(id) == inv[id].quantity <= inv[id].reorder_point
        before(a, b) == shortage(a) > shortage(b)
        rows == OrderBy(scan, keep, before)
        recommendations ==
            [i \in 1..Len(rows) |->
               LET r == inv[rows[i]]
                   base_order == r.reorder_point + OrderBuffer - r.quantity
                   adj == ExpiryAdjustedOrder(RemainingTicks(r), base_order)
               IN [item_id |-> rows[i], item_name |-> r.item_name,
                   category |-> r.category, current_quantity |-> r.quantity,
                   reorder_point |-> r.reorder_point,
                   shortage |-> shortage(rows[i]),
                   recommended_order_quantity |-> adj.quantity,
                   remaining_hours_until_expiry |-> Round1(RemainingTicks(r)),
                   note |-> adj.note]]
        quantities(recs) ==
            [i \in 1..Len(recs) |-> recs[i].recommended_order_quantity]
        cats == {recommendations[i].category : i \in 1..Len(recommendations)}
    IN  IF db.raise # "none"
        THEN Outcome(db.raise, <<>>, db.conn, db.inventory, db.stock_movements)
        ELSE Outcome("none",
                     [current_time |-> now, recommendations |-> recommendations,
                      category_orders |->
                        [c \in cats |->
                           SeqSum(quantities(SelectSeq(recommendations,
                                                       LAMBDA r : r.category = c)))],
                      summary |->
                        [total_items |-> Len(recommendations),
                         total_quantity_to_order |->
                           SeqSum(quantities(recommendations))]],
                     db.conn, db.inventory, db.stock_movements)

DefaultHistoryDays == 7

\* params.get("days", 7) or 7
DaysParam(v) == IF Truthy(v) THEN v ELSE IntVal(DefaultHistoryDays)

\* _action_movement_history
ActionMovementHistory(params, mscan) ==
    LET days == DaysParam(params.days)
        category == StrParam(params.category)
        db == GetConnection
        inv == db.inventory
        movs == db.stock_movements
        cutoff == now - days.n * 24 * TicksPerHour
        keep(i) == /\ movs[i].created_at >= cutoff
                   /\ category.s # "" =>
                        /\ movs[i].item_id \in DOMAIN inv
                        /\ inv[movs[i].item_id].category = category.s
        before(i, j) == movs[i].created_at > movs[j].created_at
        rows == OrderBy(mscan, keep, before)
        movements == [k \in 1..Len(rows) |-> movs[rows[k]]]
        total(type) ==
            SeqSum([k \in 1..Len(SelectSeq(movements, LAMBDA m : m.movement_type = type))
                       |-> SelectSeq(movements, LAMBDA m : m.movement_type = type)[k].quantity])
    IN  IF category.raise # "none"
        THEN Outcome(category.raise, <<>>, conn, inventory, stock_movements)
        ELSE IF db.raise # "none"
        THEN Outcome(db.raise, <<>>, db.conn, db.inventory, db.stock_movements)
        ELSE IF days.t # "int"
        THEN Outcome("TypeError", <<>>, db.conn, db.inventory, db.stock_movements)
        ELSE Outcome("none",
                     [current_time |-> now, period_days |-> days.n,
                      movements |-> movements,
                      summary |-> [total_in |-> total("in"),
                                   total_out |-> total("out"),
                                   total_expired |-> total("expired"),
                                   total_movements |-> Len(movements)]],
                     db.conn, db.inventory, db.stock_movements)

-----------------------------------------------------------------------------
(* InventoryManagerTool._invoke *)

\* str(e) of a caught exception, as the error message
ExceptionResult(exc) == [error |-> [text |-> exc, values |-> <<>>]]

\* tool_parameters.get("action", "list").strip().lower(), evaluated before the
\* try block: a null or non-string action raises AttributeError there.
ActionParam(v) ==
    LET a == Get(v, StrVal("list")) IN
    IF a.t = "str" THEN [raise |-> "none", s |-> Lower(Strip(a.s))]
    ELSE [raise |-> "AttributeError", s |-> ""]

Dispatch(action, params, scan, mscan) ==
    CASE action = "list" -> ActionList(params, scan)
      [] action = "check_expiration" -> ActionCheckExpiration(params, scan)
      [] action = "add_stock" -> ActionAddStock(params)
      [] action = "remove_stock" -> ActionRemoveStock(params)
      [] action = "low_stock_alert" -> ActionLowStockAlert(params, scan)
      [] action = "order_recommendation" -> ActionOrderRecommendation(params, scan)
      [] action = "movement_history" -> ActionMovementHistory(params, mscan)
      [] OTHER -> Outcome("none", ErrorResult("Unknown action", <<action>>),
                          conn, inventory, stock_movements)

\* The exploration keeps stock levels and the ledger within the bounds.
WithinBounds(out) ==
    /\ Len(out.stock_movements) <= MaxMovements
    /\ \A id \in DOMAIN out.inventory : out.inventory[id].quantity <= MaxQuantity

\* The end of _invoke: the outcome of the action becomes the one message
\* and the database the handler leaves behind
Deliver(out) ==
    /\ WithinBounds(out)
    /\ raised' = "none"
    /\ messages' = << IF out.raise # "none"
                      THEN ExceptionResult(out.raise)
                      ELSE out.result >>
    /\ conn' = out.conn
    /\ inventory' = out.inventory
    /\ stock_movements' = out.stock_movements

\* The action parameter has no strip(): the exception leaves _invoke
Escape(exc) ==
    /\ raised' = exc
    /\ messages' = <<>>
    /\ UNCHANGED <<conn, inventory, stock_movements>>

InventoryInvokeAs(action, params, scan, mscan) ==
    /\ call' = [tool |-> "inventory_manager", params |-> params]
    /\ UNCHANGED <<seed_file, store, callers, now, model_cache, artifact>>
    /\ IF action.raise # "none"
       THEN Escape(action.raise)
       ELSE Deliver(Dispatch(action.s, params, scan, mscan))

InventoryInvoke(params, scan, mscan) ==
    InventoryInvokeAs(ActionParam(params.action), params, scan, mscan)

-----------------------------------------------------------------------------
(* The demand model: demand_forecast.py *)

DefaultBaseDemand == 50
DefaultTemperature == 20
DefaultHumidity == 60

\* The pickled artifact: label encoders (classes_ in sorted order), the item
\* list, the base-demand table and the regressor. The regressor is opaque to
\* the program; the ones explored give a demand in tenths from the encoded
\* weather, the encoded item, the temperature (in tenths of a degree) and the
\* weekend flag.
Regressor(table, per_degree, weekend) ==
    [table |-> table, per_degree |-> per_degree, weekend |-> weekend]

ModelItems == <<"onigiri", "sandwich", "bento", "oden">>

Artifacts ==
    { [readable |-> TRUE,
       weather_classes |-> <<"cloudy", "rainy", "sunny">>,
       item_classes |-> <<"bento", "oden", "onigiri", "sandwich">>,
       items |-> ModelItems,
       base_demand |-> ("onigiri" :> 50 @@ "sandwich" :> 25 @@ "bento" :> 100),
       model |-> r]
      : r \in { Regressor([w \in 0..2, i \in 0..3 |-> 500 + 100 * w - 150 * i], 5, 0),
                Regressor([w \in 0..2, i \in 0..3 |->
                             IF w = 0 THEN 605 - 100 * i ELSE 355 + 55 * i * w], 0, 45),
                Regressor([w \in 0..2, i \in 0..3 |->
                             IF w = 1 THEN 500 ELSE <<800, 600, 600, 200>>[i + 1]], 0, 0) } }

UnreadableArtifact ==
    [readable |-> FALSE, weather_classes |-> <<>>, item_classes |-> <<>>,
     items |-> <<>>, base_demand |-> <<>>, model |-> Regressor(<<>>, 0, 0)]

NotLoaded == [loaded |-> FALSE, data |-> UnreadableArtifact]

\* A loader that reads the artifact on every call
LoadModelEveryTime(cache) ==
    IF artifact.readable
    THEN [raise |-> "none", cache |-> [loaded |-> TRUE, data |-> artifact]]
    ELSE [raise |-> "FileNotFoundError", cache |-> cache]

\* _load_model: the cache after the call and the exception it raises
LoadModel(cache) ==
    IF cache.loaded THEN [raise |-> "none", cache |-> cache]
    ELSE IF artifact.readable
    THEN [raise |-> "none", cache |-> [loaded |-> TRUE, data |-> artifact]]
    ELSE [raise |-> "FileNotFoundError", cache |-> cache]

\* LabelEncoder.transform([label])[0]: the index of the label among classes_
Encode(classes, label) == Position(classes, label) - 1

\* model.predict(X)[0], in tenths
ModelPredict(model, X) ==
    Max(0, model.table[X[1], X[7]]
           + model.per_degree * (X[2] - 10 * DefaultTemperature)
           + model.weekend * X[5])

\* int(x) of a float given as n/d: truncation towards zero
Trunc(n, d) == IF n >= 0 THEN n \div d ELSE 0 - ((0 - n) \div d)

\* round(n/d) to the nearest integer; the values explored lie halfway nowhere
RoundDiv(n, d) == (2 * n + d) \div (2 * d)

\* round((predicted / base - 1) * 100, 1), in tenths of a percent
ChangePercent(predicted, base) == RoundDiv((predicted - base) * 1000, base)

Abs(x) == IF x < 0 THEN 0 - x ELSE x

\* list.sort(key=..., reverse=True): descending by key, equal keys in their
\* original order
SortDescending(seq, Key(_)) ==
    LET before(i, j) == \/ Key(seq[i]) > Key(seq[j])
                        \/ Key(seq[i]) = Key(seq[j]) /\ i < j
        order == SortSeq([i \in 1..Len(seq) |-> i], before)
    IN [k \in 1..Len(seq) |-> seq[order[k]]]

\* A sort that leaves equal keys in the reverse of their original order
SortPredictionsTiesReversed(predictions) ==
    LET before(i, j) ==
            \/ Abs(predictions[i].change_percent) > Abs(predictions[j].change_percent)
            \/ /\ Abs(predictions[i].change_percent) = Abs(predictions[j].change_percent)
               /\ i > j
        order == SortSeq([i \in 1..Len(predictions) |-> i], before)
    IN [k \in 1..Len(predictions) |-> predictions[order[k]]]

\* predictions.sort(key=lambda x: abs(x["change_percent"]), reverse=True)
SortPredictions(predictions) ==
    SortDescending(predictions, LAMBDA r : Abs(r.change_percent))

NoWarning == [unsupported |-> "", supported |-> <<>>]

\* A fallback to fair weather
FallbackWeatherSunny == "sunny"

\* The fallback weather of _predict
FallbackWeather == "cloudy"

\* DemandForecastTool._predict, on a loaded model
PredictWith(data, weather, temperature, humidity, day_of_week, is_weekend, hour) ==
    LET known == weather \in SeqToSet(data.weather_classes)
        weather_warning == IF known THEN NoWarning
                           ELSE [unsupported |-> weather,
                                 supported |-> data.weather_classes]
        used == IF known THEN weather ELSE FallbackWeather
        weather_encoded == Encode(data.weather_classes, used)
        row(item) ==
            LET X == <<weather_encoded, temperature, humidity, day_of_week,
                       is_weekend, hour, Encode(data.item_classes, item)>>
                predicted == Trunc(ModelPredict(data.model, X), 10)
                base == IF item \in DOMAIN data.base_demand
                        THEN data.base_demand[item] ELSE DefaultBaseDemand
            IN [item |-> item, predicted_demand |-> predicted,
                base_demand |-> base,
                change_percent |-> ChangePercent(predicted, base)]
        predictions == [i \in 1..Len(data.items) |-> row(data.items[i])]
    IN  IF used \notin SeqToSet(data.weather_classes)
        THEN [raise |-> "ValueError", predictions |-> <<>>, warning |-> NoWarning]
        ELSE [raise |-> "none",
              predictions |-> SortPredictions(predictions),
              warning |-> weather_warning]

\* DemandForecastTool._predict: the model is loaded (and cached) first
Predict(cache, weather, temperature, humidity, day_of_week, is_weekend, hour) ==
    LET load == LoadModel(cache)
        got == PredictWith(load.cache.data, weather, temperature, humidity,
                           day_of_week, is_weekend, hour)
    IN  IF load.raise # "none"
        THEN [raise |-> load.raise, predictions |-> <<>>,
              warning |-> NoWarning, cache |-> load.cache]
        ELSE [raise |-> got.raise, predictions |-> got.predictions,
              warning |-> got.warning, cache |-> load.cache]

\* datetime.weekday() and datetime.hour of the clock, which starts on a
\* Saturday at 23:00
Weekday(t) == (5 + (23 + t \div TicksPerHour) \div 24) % 7

HourOfDay(t) == (23 + t \div TicksPerHour) % 24

IsWeekend(t) == IF Weekday(t) >= 5 THEN 1 ELSE 0

\* float(x), in tenths, of the parameter values the model enumerates. An
\* integer beyond the range of a float raises OverflowError; the string "nan"
\* and the float NaN give NaN.
ParseFloat(v) ==
    CASE v.t = "int" -> [raise |-> "none", x |-> 10 * v.n, nan |-> FALSE]
      [] v.t = "tenths" -> [raise |-> "none", x |-> v.n, nan |-> FALSE]
      [] v.t = "bigint" -> [raise |-> "OverflowError", x |-> 0, nan |-> FALSE]
      [] v.t = "nan" -> [raise |-> "none", x |-> 0, nan |-> TRUE]
      [] v.t = "str" /\ v.s = "30" -> [raise |-> "none", x |-> 300, nan |-> FALSE]
      [] v.t = "str" /\ v.s = "2.5" -> [raise |-> "none", x |-> 25, nan |-> FALSE]
      [] v.t = "str" /\ v.s = "nan" -> [raise |-> "none", x |-> 0, nan |-> TRUE]
      [] v.t = "str" -> [raise |-> "ValueError", x |-> 0, nan |-> FALSE]
      [] OTHER -> [raise |-> "TypeError", x |-> 0, nan |-> FALSE]

\* A float parameter, in tenths
FloatVal(tenths) == [t |-> "tenths", s |-> "", n |-> tenths]

\* The float NaN, and an integer too large for a float (10 ** 400)
NaN == [t |-> "nan", s |-> "", n |-> 0]

HugeInt == [t |-> "bigint", s |-> "", n |-> 0]

\* except (ValueError, TypeError)
Caught(exc) == exc \in {"ValueError", "TypeError"}

\* The first exception of a sequence of evaluations, "none" without one
FirstRaise(raises) ==
    IF \A i \in 1..Len(raises) : raises[i] = "none" THEN "none"
    ELSE raises[CHOOSE i \in 1..Len(raises) :
                   /\ raises[i] # "none"
                   /\ \A j \in 1..(i - 1) : raises[j] = "none"]

\* tool_parameters.get("weather", "sunny").lower(), outside the try block
ForecastWeatherParam(v) ==
    LET w == Get(v, StrVal("sunny")) IN
    IF w.t = "str" THEN [raise |-> "none", s |-> Lower(w.s)]
    ELSE [raise |-> "AttributeError", s |-> ""]

\* The two float() calls of DemandForecastTool._invoke share one try block:
\* a ValueError or TypeError of either resets both values, any other
\* exception leaves _invoke
ForecastFloats(temperature, humidity) ==
    LET t == ParseFloat(Get(temperature, IntVal(DefaultTemperature)))
        h == ParseFloat(Get(humidity, IntVal(DefaultHumidity)))
        exc == FirstRaise(<<t.raise, h.raise>>)
    IN  IF exc = "none"
        THEN [raise |-> "none", temperature |-> t.x, humidity |-> h.x]
        ELSE [raise |-> IF Caught(exc) THEN "none" ELSE exc,
              temperature |-> 10 * DefaultTemperature,
              humidity |-> 10 * DefaultHumidity]

\* The body of DemandForecastTool._invoke from the try block on
ForecastRun(weather, temperature, humidity, out) ==
    LET result == [input |-> [weather |-> weather, temperature |-> temperature,
                              humidity |-> humidity,
                              day_of_week |-> Weekday(now),
                              hour |-> HourOfDay(now)],
                   predictions |-> out.predictions,
                   model_info |-> [type |-> "RandomForestRegressor",
                                   version |-> "1.0.0"]]
    IN  /\ raised' = "none"
        /\ model_cache' = out.cache
        /\ messages' =
             << IF out.raise # "none" THEN ExceptionResult(out.raise)
                ELSE IF out.warning # NoWarning
                THEN result @@ [warning |-> out.warning]
                ELSE result >>

ForecastInvokeAs(params, weather, floats) ==
    /\ call' = [tool |-> "demand_forecast", params |-> params]
    /\ UNCHANGED <<conn, seed_file, store, callers, inventory, stock_movements, now, artifact>>
    /\ IF FirstRaise(<<weather.raise, floats.raise>>) # "none"
       THEN /\ raised' = FirstRaise(<<weather.raise, floats.raise>>)
            /\ messages' = <<>>
            /\ UNCHANGED model_cache
       ELSE ForecastRun(weather.s, floats.temperature, floats.humidity,
                        Predict(model_cache, weather.s, floats.temperature,
                                floats.humidity, Weekday(now), IsWeekend(now),
                                HourOfDay(now)))

\* DemandForecastTool._invoke
ForecastInvoke(params) ==
    ForecastInvokeAs(params, ForecastWeatherParam(params.weather),
                     ForecastFloats(params.temperature, params.humidity))

-----------------------------------------------------------------------------
(* The order optimizer: order_optimizer.py *)

MinSafetyStockDays == 5
MaxSafetyStockDays == 30
DefaultSafetyStockDays == 10
SkipHours == 4
HalfHours == 8

\* A ratio predicted / base, kept as the fraction n/d (d > 0)
Ratio(n, d) == [n |-> n, d |-> d]

\* ratio >= 1.2 and ratio < 0.7
RatioAtLeastHigh(r) == 5 * r.n >= 6 * r.d

RatioBelowSevenTenths(r) == 10 * r.n < 7 * r.d

\* ratio > 1.2 and ratio < 0.8
RatioHigh(r) == 5 * r.n > 6 * r.d

RatioLow(r) == 5 * r.n < 4 * r.d

\* round(ratio, 2), in hundredths
Round2(r) == RoundDiv(100 * r.n, r.d)

\* f"{x:.0f}" of a value in tenths: the nearest integer, a half to the even one
FormatWhole(tenths) ==
    LET q == tenths \div 10
        r == tenths % 10
    IN  IF r < 5 THEN q
        ELSE IF r > 5 THEN q + 1
        ELSE IF q % 2 = 0 THEN q ELSE q + 1

\* The entry of demand_ratio_map.get(category, ...) when the forecast has none
DefaultDemandInfoHalved ==
    [ratio |-> Ratio(1, 2), predicted_demand |-> 0, base_demand |-> 0,
     change_percent |-> 0]

DefaultDemandInfo ==
    [ratio |-> Ratio(1, 1), predicted_demand |-> 0, base_demand |-> 0,
     change_percent |-> 0]

\* demand_ratio_map[category]: the last prediction of the category decides
DemandInfo(demand_predictions, category) ==
    LET hits == {i \in 1..Len(demand_predictions) :
                    demand_predictions[i].item = category}
        pred == demand_predictions[SetMax(hits)]
    IN  IF hits = {} THEN DefaultDemandInfo
        ELSE [ratio |-> IF pred.base_demand > 0
                        THEN Ratio(pred.predicted_demand, pred.base_demand)
                        ELSE Ratio(1, 1),
              predicted_demand |-> pred.predicted_demand,
              base_demand |-> pred.base_demand,
              change_percent |-> pred.change_percent]

\* remaining_hours < h, remaining_hours in tenths
AtOrBelowHours(remaining_hours, h) == remaining_hours <= 10 * h

BelowHours(remaining_hours, h) == remaining_hours < 10 * h

\* max(0, base_order // 2)
HalfOrderCeil(base_order) == Max(0, (base_order + 1) \div 2)

HalfOrder(base_order) == Max(0, base_order \div 2)

Note(rule, pct) == [rule |-> rule, pct |-> pct]

\* The if/elif chain with the demand rules moved before the expiry rules
OrderPolicyDemandFirst(remaining_hours, info, base_order) ==
    IF RatioHigh(info.ratio)
    THEN [order_quantity |-> base_order,
          note |-> Note("demand_up", FormatWhole(info.change_percent))]
    ELSE IF RatioLow(info.ratio)
    THEN [order_quantity |-> HalfOrder(base_order),
          note |-> Note("demand_down", FormatWhole(info.change_percent))]
    ELSE IF BelowHours(remaining_hours, SkipHours)
    THEN [order_quantity |-> 0, note |-> Note("expiry_skip", 0)]
    ELSE IF BelowHours(remaining_hours, HalfHours)
    THEN [order_quantity |-> HalfOrder(base_order), note |-> Note("expiry_half", 0)]
    ELSE [order_quantity |-> base_order, note |-> Note("normal", 0)]

\* The if/elif chain of _calculate_orders: quantity and note of one item
OrderPolicy(remaining_hours, info, base_order) ==
    IF BelowHours(remaining_hours, SkipHours)
    THEN [order_quantity |-> 0, note |-> Note("expiry_skip", 0)]
    ELSE IF BelowHours(remaining_hours, HalfHours)
    THEN [order_quantity |-> HalfOrder(base_order), note |-> Note("expiry_half", 0)]
    ELSE IF RatioHigh(info.ratio)
    THEN [order_quantity |-> base_order,
          note |-> Note("demand_up", FormatWhole(info.change_percent))]
    ELSE IF RatioLow(info.ratio)
    THEN [order_quantity |-> HalfOrder(base_order),
          note |-> Note("demand_down", FormatWhole(info.change_percent))]
    ELSE [order_quantity |-> base_order, note |-> Note("normal", 0)]

\* One recommendation of _calculate_orders; safety_stock_days in tenths
Recommend(category, info, item, safety_stock_days) ==
    LET adjusted_target == Trunc(item.reorder_point * info.ratio.n * safety_stock_days,
                                 info.ratio.d * 10)
        base_order == Max(0, adjusted_target - item.quantity)
        policy == OrderPolicy(item.remaining_hours, info, base_order)
    IN [item_id |-> item.item_id, item_name |-> item.item_name,
        category |-> category, current_quantity |-> item.quantity,
        reorder_point |-> item.reorder_point,
        adjusted_target |-> adjusted_target,
        demand_ratio |-> Round2(info.ratio),
        recommended_order_quantity |-> policy.order_quantity,
        remaining_hours_until_expiry |-> item.remaining_hours,
        note |-> policy.note]

\* Concatenation of a sequence of sequences
Flatten(seqs) ==
    LET cat[i \in 0..Len(seqs)] == IF i = 0 THEN <<>> ELSE cat[i - 1] \o seqs[i]
    IN cat[Len(seqs)]

\* list.sort(key=...): ascending, equal keys in their original order
StableSort(seq, Before(_, _)) ==
    LET before(i, j) == \/ Before(seq[i], seq[j])
                        \/ ~Before(seq[j], seq[i]) /\ i < j
        order == SortSeq([i \in 1..Len(seq) |-> i], before)
    IN [k \in 1..Len(seq) |-> seq[order[k]]]

\* A sort key without the item name
ByOrderQuantityAndCategory(a, b) ==
    \/ a.recommended_order_quantity > b.recommended_order_quantity
    \/ /\ a.recommended_order_quantity = b.recommended_order_quantity
       /\ Collate(a.category) < Collate(b.category)

\* The sort key (-recommended_order_quantity, category, item_name)
ByOrderQuantity(a, b) ==
    \/ a.recommended_order_quantity > b.recommended_order_quantity
    \/ /\ a.recommended_order_quantity = b.recommended_order_quantity
       /\ \/ Collate(a.category) < Collate(b.category)
          \/ /\ a.category = b.category
             /\ Collate(a.item_name) < Collate(b.item_name)

\* OrderOptimizerTool._calculate_orders; inventory_by_category is the dict as
\* the sequence of its (category, items) pairs in insertion order
CalculateOrders(demand_predictions, inventory_by_category, safety_stock_days) ==
    LET of_category(entry) ==
            LET info == DemandInfo(demand_predictions, entry.category)
            IN [i \in 1..Len(entry.items) |->
                  Recommend(entry.category, info, entry.items[i], safety_stock_days)]
        recommendations ==
            Flatten([k \in 1..Len(inventory_by_category) |->
                       of_category(inventory_by_category[k])])
    IN StableSort(recommendations, ByOrderQuantity)

\* The grouping loop of _get_inventory_by_category: categories in the order
\* of their first row
GroupByCategory(items) ==
    LET first == SelectSeq([i \in 1..Len(items) |-> i],
                           LAMBDA i : \A j \in 1..(i - 1) :
                                         items[j].category # items[i].category)
    IN [k \in 1..Len(first) |->
          [category |-> items[first[k]].category,
           items |-> SelectSeq(items,
                               LAMBDA it : it.category = items[first[k]].category)]]

\* A snapshot that clears the rows of the items that have run out
GetInventoryByCategoryPruning(scan) ==
    LET db == GetConnection
        inv == db.inventory
        keep(id) == inv[id].quantity >= 0
        before(a, b) == ByCategoryAndName(inv, a, b)
        rows == OrderBy(scan, keep, before)
        items == [i \in 1..Len(rows) |->
                    LET r == inv[rows[i]] IN
                    [item_id |-> rows[i], item_name |-> r.item_name,
                     category |-> r.category, quantity |-> r.quantity,
                     min_stock_level |-> r.min_stock_level,
                     reorder_point |-> r.reorder_point,
                     remaining_hours |-> Round1(RemainingTicks(r))]]
    IN [raise |-> db.raise,
        by_category |-> IF db.raise = "none" THEN GroupByCategory(items) ELSE <<>>,
        conn |-> db.conn,
        inventory |-> [id \in {i \in DOMAIN inv : inv[i].quantity > 0} |-> inv[id]],
        stock_movements |-> db.stock_movements]

\* OrderOptimizerTool._get_inventory_by_category
GetInventoryByCategory(scan) ==
    LET db == GetConnection
        inv == db.inventory
        keep(id) == inv[id].quantity >= 0
        before(a, b) == ByCategoryAndName(inv, a, b)
        rows == OrderBy(scan, keep, before)
        items == [i \in 1..Len(rows) |->
                    LET r == inv[rows[i]] IN
                    [item_id |-> rows[i], item_name |-> r.item_name,
                     category |-> r.category, quantity |-> r.quantity,
                     min_stock_level |-> r.min_stock_level,
                     reorder_point |-> r.reorder_point,
                     remaining_hours |-> Round1(RemainingTicks(r))]]
    IN [raise |-> db.raise,
        by_category |-> IF db.raise = "none" THEN GroupByCategory(items) ELSE <<>>,
        conn |-> db.conn, inventory |-> db.inventory,
        stock_movements |-> db.stock_movements]

\* max(0.5, min(x, 3.0)), in tenths
Clamp(x) == Max(MinSafetyStockDays, Min(x, MaxSafetyStockDays))

\* max(0.5, min(float(x), 3.0)), 1.0 after a ValueError or TypeError; in
\* tenths. min(nan, 3.0) is nan and max(0.5, nan) is 0.5. The conversion
\* stands before the try block of _invoke: any other exception leaves it.
SafetyStockDays(v) ==
    LET f == ParseFloat(Get(v, IntVal(1))) IN
    IF f.raise = "none"
    THEN [raise |-> "none", x |-> IF f.nan THEN MinSafetyStockDays ELSE Clamp(f.x)]
    ELSE IF Caught(f.raise)
    THEN [raise |-> "none", x |-> DefaultSafetyStockDays]
    ELSE [raise |-> f.raise, x |-> 0]

\* tool_parameters.get("weather", "sunny").strip().lower(), evaluated before
\* the try block
OptimizerWeatherParam(v) ==
    LET w == Get(v, StrVal("sunny")) IN
    IF w.t = "str" THEN [raise |-> "none", s |-> Lower(Strip(w.s))]
    ELSE [raise |-> "AttributeError", s |-> ""]

\* float(x) with the default of OrderOptimizerTool._invoke, in tenths
FloatOr(v, default) ==
    LET f == ParseFloat(Get(v, IntVal(default))) IN
    IF f.raise = "none" THEN [raise |-> "none", x |-> f.x]
    ELSE IF Caught(f.raise) THEN [raise |-> "none", x |-> 10 * default]
    ELSE [raise |-> f.raise, x |-> 0]

\* A summing loop that assigns where the code adds: each category keeps the
\* quantity of its last recommendation
CategorySummaryLastOnly(recommendations) ==
    LET cats == {recommendations[i].category : i \in 1..Len(recommendations)}
        of_cat(c) == SelectSeq(recommendations, LAMBDA r : r.category = c)
    IN [c \in cats |->
          [order_quantity |-> of_cat(c)[Len(of_cat(c))].recommended_order_quantity,
           demand_ratio |-> of_cat(c)[1].demand_ratio]]

\* The summing loop over the recommendations: per category the total of the
\* quantities and the demand_ratio of the category's first recommendation
CategorySummary(recommendations) ==
    LET cats == {recommendations[i].category : i \in 1..Len(recommendations)}
        of_cat(c) == SelectSeq(recommendations, LAMBDA r : r.category = c)
    IN [c \in cats |->
          [order_quantity |->
             SeqSum([i \in 1..Len(of_cat(c)) |->
                       of_cat(c)[i].recommended_order_quantity]),
           demand_ratio |-> of_cat(c)[1].demand_ratio]]

\* The message of a failed optimize with the forecast left in it
OptimizerFailurePartial(exc, demand_predictions) ==
    ExceptionResult(exc) @@ [demand_forecast |-> demand_predictions]

\* except Exception as e: the one message of a failed optimize
OptimizerFailure(exc, demand_predictions) == ExceptionResult(exc)

\* A result that never carries the warning of the forecast
OptimizerResultSilent(conditions, forecast, recommendations) ==
    [current_time |-> now,
     conditions |-> conditions,
     demand_forecast |-> forecast.predictions,
     recommendations |-> recommendations,
     category_summary |-> CategorySummary(recommendations),
     summary |->
       [total_items |-> Len(recommendations),
        items_to_order |->
          Len(SelectSeq(recommendations,
                        LAMBDA r : r.recommended_order_quantity > 0)),
        total_order_quantity |->
          SeqSum([i \in 1..Len(recommendations) |->
                    recommendations[i].recommended_order_quantity])]]

\* The result of a successful optimize
OptimizerResult(conditions, forecast, recommendations) ==
    LET result ==
            [current_time |-> now,
             conditions |-> conditions,
             demand_forecast |-> forecast.predictions,
             recommendations |-> recommendations,
             category_summary |-> CategorySummary(recommendations),
             summary |->
               [total_items |-> Len(recommendations),
                items_to_order |->
                  Len(SelectSeq(recommendations,
                                LAMBDA r : r.recommended_order_quantity > 0)),
                total_order_quantity |->
                  SeqSum([i \in 1..Len(recommendations) |->
                            recommendations[i].recommended_order_quantity])]]
    IN  IF forecast.warning # NoWarning
        THEN result @@ [weather_warning |-> forecast.warning]
        ELSE result

\* The try block of OrderOptimizerTool._invoke
OptimizerRun(conditions, forecast, snapshot) ==
    /\ raised' = "none"
    /\ model_cache' = forecast.cache
    /\ IF forecast.raise # "none"
       THEN /\ messages' = <<OptimizerFailure(forecast.raise, <<>>)>>
            /\ UNCHANGED <<conn, inventory, stock_movements>>
       ELSE /\ conn' = snapshot.conn
            /\ inventory' = snapshot.inventory
            /\ stock_movements' = snapshot.stock_movements
            /\ messages' =
                 << IF snapshot.raise # "none"
                    THEN OptimizerFailure(snapshot.raise, forecast.predictions)
                    ELSE OptimizerResult(
                           conditions, forecast,
                           CalculateOrders(forecast.predictions, snapshot.by_category,
                                           conditions.safety_stock_days)) >>

\* The parameters of OrderOptimizerTool._invoke as normalised before the try
\* block, and the first exception of the normalisation
OptimizerConditions(params) ==
    LET weather == OptimizerWeatherParam(params.weather)
        temperature == FloatOr(params.temperature, DefaultTemperature)
        humidity == FloatOr(params.humidity, DefaultHumidity)
        safety_stock_days == SafetyStockDays(params.safety_stock_days)
    IN [raise |-> FirstRaise(<<weather.raise, temperature.raise, humidity.raise,
                               safety_stock_days.raise>>),
        weather |-> weather.s, temperature |-> temperature.x,
        humidity |-> humidity.x, safety_stock_days |-> safety_stock_days.x]

OptimizerInvokeAs(params, given, scan) ==
    /\ call' = [tool |-> "order_optimizer", params |-> params]
    /\ UNCHANGED <<seed_file, store, callers, now, artifact>>
    /\ IF given.raise # "none"
       THEN /\ raised' = given.raise
            /\ messages' = <<>>
            /\ UNCHANGED <<conn, inventory, stock_movements, model_cache>>
       ELSE OptimizerRun([weather |-> given.weather,
                          temperature |-> given.temperature,
                          humidity |-> given.humidity,
                          safety_stock_days |-> given.safety_stock_days],
                         Predict(model_cache, given.weather, given.temperature,
                                 given.humidity, Weekday(now), IsWeekend(now),
                                 HourOfDay(now)),
                         GetInventoryByCategory(scan))

\* OrderOptimizerTool._invoke
OptimizerInvoke(params, scan) ==
    OptimizerInvokeAs(params, OptimizerConditions(params), scan)

-----------------------------------------------------------------------------
(* Parameter bags of the store exploration *)

NoParams ==
    [action |-> Missing, item_id |-> Missing, item_name |-> Missing,
     category |-> Missing, quantity |-> Missing, reason |-> Missing,
     expires_in_hours |-> Missing, urgency |-> Missing,
     hours_threshold |-> Missing, days |-> Missing,
     weather |-> Missing, temperature |-> Missing, humidity |-> Missing,
     safety_stock_days |-> Missing]

ReasonVal(r) == [t |-> "reason", s |-> "", n |-> 0, r |-> r]

Bag(action, item_id, quantity) ==
    [NoParams EXCEPT !.action = action, !.item_id = item_id, !.quantity = quantity]

AddStockBags ==
    LET add(id, q) == Bag(StrVal("add_stock"), id, q)
        named(b, name, cat) == [b EXCEPT !.item_name = name, !.category = cat]
    IN { add(StrVal("INV001"), IntVal(1)),
         add(StrVal(" INV002 "), IntVal(2)),
         add(StrVal("INV001"), IntVal(0)),
         add(StrVal("INV001"), Missing),
         add(StrVal("INV001"), IntVal(-1)),
         named(add(Missing, IntVal(1)), StrVal("tuna onigiri"), StrVal("onigiri")),
         named(add(StrVal("NONEXISTENT"), IntVal(2)), StrVal("pudding"), StrVal("dessert")),
         named(add(Missing, IntVal(1)), Missing, StrVal("onigiri")),
         named(add(StrVal("NONEXISTENT"), IntVal(1)), StrVal("pudding"), Missing) }

RemoveStockBags ==
    LET remove(id, q) == Bag(StrVal(" REMOVE_STOCK "), id, q)
        because(b, r) == [b EXCEPT !.reason = ReasonVal(r)]
    IN { remove(StrVal("INV001"), IntVal(1)),
         because(remove(StrVal("INV001"), IntVal(2)), <<"ki", "gen", "gire">>),
         remove(StrVal(" INV002 "), IntVal(3)),
         remove(StrVal("INV001"), IntVal(9999)),
         remove(StrVal("INV001"), IntVal(-1)),
         remove(StrVal("INV001"), IntVal(0)),
         remove(StrVal("INV001"), Missing),
         remove(StrVal("NONEXISTENT"), IntVal(1)),
         remove(Missing, IntVal(1)) }

\* The mutations scan no table: they are invoked with empty scan orders.
Mutate(p) == InventoryInvoke(p, <<>>, <<>>)

AddStock == \E p \in AddStockBags : Mutate(p)

RemoveStock == \E p \in RemoveStockBags : Mutate(p)

\* The reasons explored: with a keyword at the start, inside or at the end,
\* with parts of the keywords only, with blanks around, empty and blank
Reasons ==
    { <<"hai", "ki2">>,
      <<"ki", "gen", "gire">>,
      <<"shou", "mi", "ki", "gen">>,
      <<" ", "ten", "nai", "hai", "ki2", "bun", " ">>,
      <<"hai", "ki">>,
      <<"ki2", "hai">>,
      <<"hai", " ", "ki2">>,
      <<"ki", "kan", "gen", "tei">>,
      <<"han", "bai">>,
      <<" ">>,
      <<>> }

\* remove_stock calls of one unit with every reason, and with none
ReasonBags ==
    LET remove == Bag(StrVal("remove_stock"), StrVal("INV002"), IntVal(1))
    IN  {remove, [remove EXCEPT !.reason = Null]}
        \cup {[remove EXCEPT !.reason = ReasonVal(r)] : r \in Reasons}

RemoveStockBecause == \E p \in ReasonBags : Mutate(p)

\* The orders in which the rows of a table may come back
ScanOrders(table) == Perms(DOMAIN table)

\* An invocation under every order in which the table it reads may be scanned
Query(p) ==
    IF p.action = StrVal("movement_history")
    THEN \E mscan \in ScanOrders(GetConnection.stock_movements) :
            InventoryInvoke(p, <<>>, mscan)
    ELSE \E scan \in ScanOrders(GetConnection.inventory) :
            InventoryInvoke(p, scan, <<>>)

\* Time passes.
Tick ==
    /\ now < MaxNow
    /\ now' = now + 1
    /\ UNCHANGED <<conn, seed_file, store, callers, inventory, stock_movements,
                   model_cache, artifact, call, messages, raised>>

NoCall == [tool |-> "none", params |-> NoParams]

\* The callers that may be inside add_stock or remove_stock at once
CallerIds == {"a", "b"}

\* A caller outside the handler. stale and lost keep, for the claims, whether
\* the quantity was written after the caller read it and whether the caller
\* then wrote over it.
Idle ==
    [pc |-> "idle", params |-> NoParams, old_qty |-> 0, result |-> "none",
     stale |-> FALSE, lost |-> FALSE]

InitCommon ==
    /\ conn = "None"
    /\ store = <<>>
    /\ callers = [c \in CallerIds |-> Idle]
    /\ inventory = <<>>
    /\ stock_movements = <<>>
    /\ now = 0
    /\ model_cache = NotLoaded
    /\ call = NoCall
    /\ messages = <<>>
    /\ raised = "none"

Init ==
    /\ InitCommon
    /\ seed_file \in SeedFiles \cup {UnreadableSeed}
    /\ artifact = UnreadableArtifact

Next == AddStock \/ RemoveStock \/ Tick

Spec == Init /\ [][Next]_vars

NextReasons == AddStock \/ RemoveStockBecause

SpecReasons == Init /\ [][NextReasons]_vars

\* add_stock and remove_stock, statement by statement: two callers on the
\* one connection, with nothing to keep the statements of one call together
RaceBags ==
    { Bag(StrVal("add_stock"), StrVal("INV001"), IntVal(1)),
      Bag(StrVal("remove_stock"), StrVal("INV001"), IntVal(1)),
      Bag(StrVal("remove_stock"), StrVal("INV001"), IntVal(2)),
      [Bag(StrVal("remove_stock"), StrVal("INV001"), IntVal(1))
         EXCEPT !.reason = ReasonVal(<<"ki", "gen", "gire">>)],
      Bag(StrVal("remove_stock"), StrVal("INV002"), IntVal(1)) }

\* The handler up to its SELECT of the item's row and the check on it
RaceRead(c) ==
    /\ callers[c].pc = "idle"
    /\ \E p \in RaceBags :
         LET db == GetConnection
             id == StrParam(p.item_id).s
             old_qty == db.inventory[id].quantity
             refused == /\ ActionParam(p.action).s = "remove_stock"
                        /\ InsufficientStock(p.quantity.n, old_qty)
         IN  /\ conn' = db.conn
             /\ inventory' = db.inventory
             /\ stock_movements' = db.stock_movements
             /\ callers' =
                  [callers EXCEPT ![c] =
                     IF db.raise # "none"
                     THEN [Idle EXCEPT !.pc = "done", !.params = p, !.result = db.raise]
                     ELSE IF refused
                     THEN [Idle EXCEPT !.pc = "done", !.params = p,
                                       !.old_qty = old_qty,
                                       !.result = "insufficient stock"]
                     ELSE [Idle EXCEPT !.pc = "read", !.params = p,
                                       !.old_qty = old_qty]]
    /\ UNCHANGED <<seed_file, store, now, model_cache, artifact, call, messages, raised>>

\* The UPDATE of the handler, with the quantity computed from the row read
RaceWrite(c) ==
    /\ callers[c].pc = "read"
    /\ LET p == callers[c].params
           id == StrParam(p.item_id).s
           new_qty == IF ActionParam(p.action).s = "add_stock"
                      THEN callers[c].old_qty + p.quantity.n
                      ELSE callers[c].old_qty - p.quantity.n
       IN  /\ inventory' = SetQuantity(inventory, id, new_qty)
           /\ callers' =
                [d \in CallerIds |->
                   IF d = c
                   THEN [callers[c] EXCEPT !.pc = "written", !.lost = callers[c].stale]
                   ELSE IF callers[d].pc = "read" /\ StrParam(callers[d].params.item_id).s = id
                   THEN [callers[d] EXCEPT !.stale = TRUE]
                   ELSE callers[d]]
    /\ UNCHANGED <<conn, seed_file, store, stock_movements, now, model_cache,
                   artifact, call, messages, raised>>

\* The INSERT INTO stock_movements of the handler, and its return
RaceAppend(c) ==
    /\ callers[c].pc = "written"
    /\ LET p == callers[c].params
           id == StrParam(p.item_id).s
           type == IF ActionParam(p.action).s = "add_stock" THEN "in"
                   ELSE MovementType(ReasonParam(p.reason).r)
           reason == IF ActionParam(p.action).s = "add_stock" THEN RestockReason
                     ELSE ReasonParam(p.reason).r
       IN  stock_movements' =
             InsertMovement(stock_movements,
                            Movement(stock_movements, id, inventory[id].item_name,
                                     type, p.quantity.n, reason, now))
    /\ callers' = [callers EXCEPT ![c].pc = "done", ![c].result = "success"]
    /\ UNCHANGED <<conn, seed_file, store, inventory, now, model_cache,
                   artifact, call, messages, raised>>

Read == \E c \in CallerIds : RaceRead(c)

Write == \E c \in CallerIds : RaceWrite(c)

AppendMovement == \E c \in CallerIds : RaceAppend(c)

NextRace == Read \/ Write \/ AppendMovement

SpecRace == Init /\ [][NextRace]_vars

\* The read-only actions of the inventory manager
StoreQueryBags ==
    LET act(a) == [NoParams EXCEPT !.action = StrVal(a)] IN
    { act("list"), act("check_expiration"), act("low_stock_alert"),
      act("order_recommendation"), act("movement_history") }

\* One order in which the rows of a table may come back, and its reverse
TwoScanOrders(table) ==
    LET scan == CHOOSE q \in Perms(DOMAIN table) : TRUE
    IN  {scan, [i \in 1..Len(scan) |-> scan[Len(scan) + 1 - i]]}

\* A read-only action under the two scan orders
ReadOnly(p) ==
    IF p.action = StrVal("movement_history")
    THEN \E mscan \in TwoScanOrders(GetConnection.stock_movements) :
            InventoryInvoke(p, <<>>, mscan)
    ELSE \E scan \in TwoScanOrders(GetConnection.inventory) :
            InventoryInvoke(p, scan, <<>>)

ReadOnlyCall == \E p \in StoreQueryBags : ReadOnly(p)

\* The mutations explored between the read-only actions
StoreBags ==
    { Bag(StrVal("add_stock"), StrVal("INV001"), IntVal(1)),
      Bag(StrVal("add_stock"), StrVal("INV002"), IntVal(1)),
      [Bag(StrVal("add_stock"), Missing, IntVal(1))
         EXCEPT !.item_name = StrVal("tuna onigiri"), !.category = StrVal("onigiri")],
      Bag(StrVal("remove_stock"), StrVal("INV001"), IntVal(2)),
      Bag(StrVal("remove_stock"), StrVal("INV002"), IntVal(1)),
      Bag(StrVal("remove_stock"), StrVal("INV002"), IntVal(9999)) }

StoreMutation == \E p \in StoreBags : Mutate(p)

NextStore == StoreMutation \/ Tick \/ ReadOnlyCall

SpecStore == Init /\ [][NextStore]_vars

-----------------------------------------------------------------------------
(* _calculate_orders as a function of its arguments *)

MaxItems == 2

\* A forecast entry as _predict builds it
Prediction(item, predicted, base) ==
    [item |-> item, predicted_demand |-> predicted, base_demand |-> base,
     change_percent |-> IF base > 0 THEN ChangePercent(predicted, base) ELSE 0]

\* The forecasts explored: ratios above, at and below both thresholds, a
\* category that is absent, a base demand of zero and a repeated category
Forecasts ==
    { << Prediction("onigiri", 65, 50), Prediction("bento", 40, 25) >>,
      << Prediction("onigiri", 60, 50), Prediction("bento", 23, 30) >>,
      << Prediction("bento", 24, 30), Prediction("onigiri", 39, 50) >>,
      << Prediction("onigiri", 50, 0), Prediction("bento", 30, 30) >>,
      << Prediction("onigiri", 10, 50), Prediction("onigiri", 65, 50) >>,
      << Prediction("onigiri", 35, 50) >>,
      << >> }

StockNames == <<"ume onigiri", "nori bento", "tuna onigiri", "pudding">>

StockCategories == <<"onigiri", "bento", "onigiri", "dessert">>

StockReorderPoints == <<10, 3, 7, 10>>

\* The snapshot rows explored for the k-th item: hours left on both sides of
\* each threshold, stock empty or full
StockItems(k) ==
    { [item_id |-> FormatItemId(k), item_name |-> StockNames[k],
       category |-> StockCategories[k], quantity |-> q,
       min_stock_level |-> DefaultMinStockLevel,
       reorder_point |-> StockReorderPoints[k], remaining_hours |-> h]
      : <<q, h>> \in ({0, MaxQuantity}
                        \X {10 * SkipHours - 1, 10 * SkipHours,
                            10 * HalfHours - 1, 10 * HalfHours})
                     \cup {<<2, 240>>} }

\* The elements of a set of numbers in increasing order
Ascending(S) == SortSeq([i \in 1..Cardinality(S) |->
                           CHOOSE x \in S : Cardinality({y \in S : y < x}) = i - 1],
                       LAMBDA a, b : a < b)

\* The snapshots explored: at most MaxItems of the first MaxItems + 1 items
Snapshots ==
    UNION { LET idx == Ascending(I) IN
            { f \in [1..Len(idx) -> UNION {StockItems(k) : k \in I}] :
                \A k \in 1..Len(idx) : f[k] \in StockItems(idx[k]) }
            : I \in {J \in SUBSET (1..(MaxItems + 1)) : Cardinality(J) <= MaxItems} }

SafetyStockChoices == {5, 10, 15, 30}

OrderInputs ==
    [demand_predictions : Forecasts,
     inventory_by_category : {GroupByCategory(items) : items \in Snapshots},
     safety_stock_days : SafetyStockChoices]

InitOrders ==
    /\ InitCommon
    /\ seed_file = UnreadableSeed
    /\ artifact = UnreadableArtifact

\* A caller picks the arguments
ChooseOrderInputs ==
    /\ call.tool = "none"
    /\ \E in \in OrderInputs : call' = [tool |-> "pending", params |-> in]
    /\ UNCHANGED <<conn, seed_file, store, callers, inventory, stock_movements, now,
                   model_cache, artifact, messages, raised>>

\* _calculate_orders is applied to them, once and once again
CalculateOrdersCall ==
    /\ call.tool \in {"pending", "_calculate_orders"}
    /\ Len(messages) < 2
    /\ call' = [call EXCEPT !.tool = "_calculate_orders"]
    /\ messages' = Append(messages,
                          CalculateOrders(call.params.demand_predictions,
                                          call.params.inventory_by_category,
                                          call.params.safety_stock_days))
    /\ UNCHANGED <<conn, seed_file, store, callers, inventory, stock_movements, now,
                   model_cache, artifact, raised>>

NextOrders == ChooseOrderInputs \/ CalculateOrdersCall

SpecOrders == InitOrders /\ [][NextOrders]_vars

-----------------------------------------------------------------------------
(* _predict as a function of its arguments *)

WeatherChoices == {"sunny", "cloudy", "rainy", "storm", " storm ", "snowy", ""}

TemperatureChoices == {150, 200, 300}

InitPredict ==
    /\ InitCommon
    /\ seed_file = UnreadableSeed
    /\ artifact \in Artifacts \cup {UnreadableArtifact}

\* DemandForecastTool._predict is called
PredictCall ==
    \E weather \in WeatherChoices, temperature \in TemperatureChoices,
       day_of_week \in {4, 5}, hour \in {9, 23} :
        LET in == [weather |-> weather, temperature |-> temperature,
                   humidity |-> 10 * DefaultHumidity,
                   day_of_week |-> day_of_week,
                   is_weekend |-> IF day_of_week >= 5 THEN 1 ELSE 0,
                   hour |-> hour]
            out == Predict(model_cache, in.weather, in.temperature, in.humidity,
                           in.day_of_week, in.is_weekend, in.hour)
        IN /\ call' = [tool |-> "_predict", params |-> in]
           /\ raised' = out.raise
           /\ model_cache' = out.cache
           /\ messages' = IF out.raise # "none" THEN <<>>
                          ELSE << [predictions |-> out.predictions,
                                   warning |-> out.warning] >>
           /\ UNCHANGED <<conn, seed_file, store, callers, inventory, stock_movements, now, artifact>>

NextPredict == PredictCall

SpecPredict == InitPredict /\ [][NextPredict]_vars

-----------------------------------------------------------------------------
(* The model cache over predictions, retrainings and resets *)

\* `_model_cache = None`, as the set-up of the tests does
ResetCache ==
    /\ model_cache' = NotLoaded
    /\ call' = [tool |-> "reset", params |-> NoParams]
    /\ messages' = <<>>
    /\ raised' = "none"
    /\ UNCHANGED <<conn, seed_file, store, callers, inventory, stock_movements, now, artifact>>

\* train_demand_model.main writes another artifact, or the file goes away
ReplaceArtifact ==
    /\ artifact' \in (Artifacts \cup {UnreadableArtifact}) \ {artifact}
    /\ call' = [tool |-> "train_model", params |-> NoParams]
    /\ messages' = <<>>
    /\ raised' = "none"
    /\ UNCHANGED <<conn, seed_file, store, callers, inventory, stock_movements, now, model_cache>>

NextCache == PredictCall \/ ResetCache \/ ReplaceArtifact

SpecCache == InitPredict /\ [][NextCache]_vars

-----------------------------------------------------------------------------
(* The TTL file store: data/file_store.py *)

FILE_TTL_SECONDS == 3600

SecondsPerTick == 3600 \div TicksPerHour

MaxFiles == 3

MaxClock == 32

\* The ids uuid4().hex can give, and an id it never gave
FileIds == 1..MaxFiles

UnknownFileId == MaxFiles + 1

FileContents == {"old", "new"}

\* now - created_at >= FILE_TTL_SECONDS
ExpiredAtTtl(entry, t) ==
    (t - entry.created_at) * SecondsPerTick >= FILE_TTL_SECONDS

\* now - created_at > FILE_TTL_SECONDS
Expired(entry, t) ==
    (t - entry.created_at) * SecondsPerTick > FILE_TTL_SECONDS

\* _cleanup_expired: the store without its expired entries
CleanupExpired(entries, t) ==
    LET expired == {k \in DOMAIN entries : Expired(entries[k], t)}
    IN  [k \in DOMAIN entries \ expired |-> entries[k]]

\* store_file: uuid4 gives an id that no stored entry has
StoreFile ==
    \E file_id \in FileIds \ DOMAIN store, content \in FileContents :
        LET entry == [content |-> content, filename |-> "file.html",
                      mime_type |-> "text/html", created_at |-> now]
        IN /\ store' = (file_id :> entry) @@ CleanupExpired(store, now)
           /\ call' = [tool |-> "store_file",
                       params |-> [content |-> content, filename |-> "file.html",
                                   mime_type |-> "text/html"]]
           /\ messages' = <<file_id>>
           /\ raised' = "none"
           /\ UNCHANGED <<conn, seed_file, callers, inventory, stock_movements, now,
                          model_cache, artifact>>

\* get_file: None for an unknown or expired id, the expired entry deleted
GetFile ==
    \E file_id \in FileIds \cup {UnknownFileId} :
        /\ call' = [tool |-> "get_file", params |-> [file_id |-> file_id]]
        /\ raised' = "none"
        /\ IF file_id \notin DOMAIN store
           THEN messages' = <<Null>> /\ store' = store
           ELSE IF Expired(store[file_id], now)
           THEN /\ messages' = <<Null>>
                /\ store' = [k \in DOMAIN store \ {file_id} |-> store[k]]
           ELSE messages' = <<store[file_id]>> /\ store' = store
        /\ UNCHANGED <<conn, seed_file, callers, inventory, stock_movements, now,
                       model_cache, artifact>>

\* The clock advances by half the TTL or by a tick more than that
Elapse ==
    \E d \in {FILE_TTL_SECONDS \div (2 * SecondsPerTick),
              FILE_TTL_SECONDS \div (2 * SecondsPerTick) + 1} :
        /\ now + d <= MaxClock
        /\ now' = now + d
        /\ UNCHANGED <<conn, seed_file, store, callers, inventory, stock_movements,
                       model_cache, artifact, call, messages, raised>>

InitFiles ==
    /\ InitCommon
    /\ seed_file = UnreadableSeed
    /\ artifact = UnreadableArtifact

NextFiles == StoreFile \/ GetFile \/ Elapse

SpecFiles == InitFiles /\ [][NextFiles]_vars

-----------------------------------------------------------------------------
(* _get_urgency as a function of the remaining time and the configured rules *)

MaxThresholdHours == 5

\* The seed files explored: every pair of thresholds in whole hours
UrgencySeeds ==
    { [readable |-> TRUE, sample_inventory |-> <<>>, expiration_hours |-> <<>>,
       markdown_rules |-> [high |-> hi, medium |-> med],
       sample_movements |-> <<>>]
      : hi \in 0..MaxThresholdHours, med \in 0..MaxThresholdHours }

\* The remaining times explored: around every whole hour, to the tick
RemainingChoices ==
    { t \in 0..Hours(MaxThresholdHours + 1) :
        \E h \in 0..(MaxThresholdHours + 1) : Abs(t - Hours(h)) <= 1 }

InitUrgency ==
    /\ InitCommon
    /\ seed_file \in UrgencySeeds
    /\ artifact = UnreadableArtifact

\* _get_urgency(remaining_hours) is called, once and once again
GetUrgencyCall ==
    /\ Len(messages) < 2
    /\ \E remaining \in RemainingChoices :
         messages' = Append(messages,
                            [remaining |-> remaining,
                             urgency |-> GetUrgency(remaining,
                                                    seed_file.markdown_rules)])
    /\ call' = [call EXCEPT !.tool = "_get_urgency"]
    /\ UNCHANGED <<conn, seed_file, store, callers, inventory, stock_movements, now,
                   model_cache, artifact, raised>>

NextUrgency == GetUrgencyCall

SpecUrgency == InitUrgency /\ [][NextUrgency]_vars

-----------------------------------------------------------------------------
(* The three tool entry points, called with parameter bags of any shape *)

EntrySeed ==
    CHOOSE sd \in SeedFiles :
        /\ sd.sample_inventory["INV001"].quantity = 2
        /\ sd.sample_inventory["INV001"].expires_in_ticks = 4 * TicksPerHour

EntryInventoryBags ==
    LET act(a) == [NoParams EXCEPT !.action = a] IN
    { NoParams,
      act(Null),
      act(IntVal(3)),
      act(StrVal("bogus")),
      act(StrVal("check_expiration")),
      act(StrVal("low_stock_alert")),
      act(StrVal("order_recommendation")),
      act(StrVal("movement_history")),
      [act(StrVal("list")) EXCEPT !.category = IntVal(7)],
      Bag(StrVal("add_stock"), StrVal("INV001"), IntVal(1)),
      Bag(StrVal("add_stock"), IntVal(5), IntVal(1)),
      Bag(StrVal("add_stock"), StrVal("INV001"), StrVal("2")),
      Bag(StrVal(" REMOVE_STOCK "), StrVal("INV001"), IntVal(1)),
      Bag(StrVal(" REMOVE_STOCK "), StrVal("INV001"), Null),
      Bag(StrVal(" REMOVE_STOCK "), Null, IntVal(1)) }

WeatherBag(weather, temperature, humidity, safety_stock_days) ==
    [NoParams EXCEPT !.weather = weather, !.temperature = temperature,
                     !.humidity = humidity,
                     !.safety_stock_days = safety_stock_days]

EntryForecastBags ==
    { NoParams,
      WeatherBag(StrVal("rainy"), IntVal(25), IntVal(70), Missing),
      WeatherBag(StrVal(" Storm "), StrVal("30"), Missing, Missing),
      WeatherBag(StrVal("Cloudy"), StrVal("bad"), IntVal(70), Missing),
      WeatherBag(StrVal("sunny"), IntVal(25), Null, Missing),
      WeatherBag(Null, Missing, Missing, Missing),
      WeatherBag(IntVal(3), Missing, Missing, Missing) }

EntryOptimizerBags ==
    { NoParams,
      WeatherBag(StrVal("rainy"), IntVal(25), IntVal(70), FloatVal(15)),
      WeatherBag(StrVal(" Storm "), StrVal("30"), Missing, StrVal("2.5")),
      WeatherBag(StrVal("Cloudy"), StrVal("bad"), Null, IntVal(9)),
      WeatherBag(StrVal("sunny"), Null, StrVal("bad"), IntVal(0)),
      WeatherBag(StrVal("cloudy"), Missing, Missing, StrVal("bad")),
      WeatherBag(Null, Missing, Missing, Missing),
      WeatherBag(IntVal(3), Missing, Missing, IntVal(2)),
      WeatherBag(StrVal("rainy"), Missing, Missing, IntVal(10)),
      WeatherBag(StrVal("rainy"), Missing, Missing, FloatVal(1)),
      WeatherBag(StrVal("rainy"), Missing, Missing, Null),
      WeatherBag(StrVal("rainy"), Missing, Missing, NaN),
      WeatherBag(StrVal("rainy"), Missing, Missing, HugeInt) }

InitEntry ==
    /\ InitCommon
    /\ seed_file \in {EntrySeed, UnreadableSeed}
    /\ artifact \in Artifacts \cup {UnreadableArtifact}

InventoryCall == \E p \in EntryInventoryBags : Query(p)

ForecastCall == \E p \in EntryForecastBags : ForecastInvoke(p)

Optimize(p) == \E scan \in ScanOrders(GetConnection.inventory) : OptimizerInvoke(p, scan)

OptimizerCall == \E p \in EntryOptimizerBags : Optimize(p)

NextEntry == InventoryCall \/ ForecastCall \/ OptimizerCall

SpecEntry == InitEntry /\ [][NextEntry]_vars

\* optimize over a store that add_stock and remove_stock have changed
OptimizeBags ==
    { NoParams,
      WeatherBag(StrVal("rainy"), IntVal(25), IntVal(70), FloatVal(15)),
      WeatherBag(StrVal(" Storm "), StrVal("30"), Missing, StrVal("2.5")),
      WeatherBag(StrVal("sunny"), Null, StrVal("bad"), IntVal(0)) }

OptimizeStored == \E p \in OptimizeBags : Optimize(p)

NextRollUp == StoreMutation \/ OptimizeStored

SpecRollUp == InitEntry /\ [][NextRollUp]_vars

\* The read-only actions and optimize between mutations
OptimizeRead ==
    \E p \in OptimizeBags :
        \E scan \in TwoScanOrders(GetConnection.inventory) : OptimizerInvoke(p, scan)

NextReads == StoreMutation \/ ReadOnlyCall \/ OptimizeRead

InitReads ==
    /\ InitCommon
    /\ seed_file \in {EntrySeed, UnreadableSeed}
    /\ artifact \in {CHOOSE a \in Artifacts : TRUE, UnreadableArtifact}

SpecReads == InitReads /\ [][NextReads]_vars

-----------------------------------------------------------------------------
(* Claims about the inventory store *)

IsSuccess(msgs) == Len(msgs) = 1 /\ "success" \in DOMAIN msgs[1]

IsError(msgs) == Len(msgs) = 1 /\ "error" \in DOMAIN msgs[1]

IsPrefix(s, t) == Len(s) <= Len(t) /\ SubSeq(t, 1, Len(s)) = s

MutationBags == AddStockBags \cup RemoveStockBags

\* C1: whatever add_stock and remove_stock calls were made, accepted or
\* rejected, every inventory row has quantity >= 0.
C1_QuantityNeverNegative ==
    \A id \in DOMAIN inventory : inventory[id].quantity >= 0

\* C1 witness: a removal has emptied an item and a later removal from it was
\* rejected.
C1_Witness ==
    /\ call.tool = "inventory_manager"
    /\ ActionParam(call.params.action).s = "remove_stock"
    /\ IsError(messages)
    /\ messages[1].error.text = "insufficient stock"
    /\ messages[1].error.values[1] = 0
    /\ Len(stock_movements) > 1

\* C2: a remove_stock asking for more than the item's stock changes neither
\* the inventory nor the ledger, and its error carries the current stock and
\* the requested amount.
C2_InsufficientRejected ==
    [][ \A p \in RemoveStockBags :
          LET db == GetConnection
              id == StrParam(p.item_id).s
          IN  ( /\ Mutate(p)
                /\ db.raise = "none"
                /\ id \in DOMAIN db.inventory
                /\ p.quantity.t = "int"
                /\ p.quantity.n > db.inventory[id].quantity )
              => /\ inventory' = db.inventory
                 /\ stock_movements' = db.stock_movements
                 /\ raised' = "none"
                 /\ IsError(messages')
                 /\ messages'[1].error.text = "insufficient stock"
                 /\ messages'[1].error.values
                      = <<db.inventory[id].quantity, p.quantity.n>> ]_vars

\* C2 witness: a removal of more than the stock has been answered.
C2_Witness ==
    /\ call.tool = "inventory_manager"
    /\ IsError(messages)
    /\ messages[1].error.text = "insufficient stock"
    /\ messages[1].error.values[2] > messages[1].error.values[1]
    /\ conn = "ready"

\* C3: a successful add_stock or remove_stock appends exactly one ledger row,
\* for the item whose stock changed and with the amount added or removed; no
\* step changes or deletes a ledger row.
C3_LedgerComplete ==
    [][ /\ IsPrefix(stock_movements, stock_movements')
        /\ \A p \in MutationBags :
             LET db == GetConnection
                 old == db.stock_movements
                 row == stock_movements'[Len(stock_movements')]
                 before == IF row.item_id \in DOMAIN db.inventory
                           THEN db.inventory[row.item_id].quantity ELSE 0
                 delta == inventory'[row.item_id].quantity - before
             IN  (Mutate(p) /\ IsSuccess(messages'))
                 => /\ Len(stock_movements') = Len(old) + 1
                    /\ SubSeq(stock_movements', 1, Len(old)) = old
                    /\ row.item_id = messages'[1].item_id
                    /\ row.quantity = p.quantity.n
                    /\ row.movement_id = messages'[1].movement_id
                    /\ delta = IF messages'[1].action = "add_stock"
                               THEN row.quantity ELSE 0 - row.quantity
                    /\ \A id \in DOMAIN inventory' :
                         id # row.item_id =>
                           /\ id \in DOMAIN db.inventory
                           /\ inventory'[id] = db.inventory[id] ]_vars

\* C3 witness: an add_stock of a new item and a remove_stock for disposal
\* are in the ledger after the seeded row.
C3_Witness ==
    /\ IsSuccess(messages)
    /\ \E j, k \in 2..Len(stock_movements) :
         /\ stock_movements[j].reason = NewStockReason
         /\ stock_movements[k].movement_type = "expired"


-----------------------------------------------------------------------------
(* Claims about the tool entry points and the demand model *)

EntryTools == {"inventory_manager", "demand_forecast", "order_optimizer"}

\* The value that selects the behaviour of the call: action or weather
Selector ==
    IF call.tool = "inventory_manager" THEN call.params.action
    ELSE call.params.weather

\* C4: whatever the parameter bag (missing, null or wrongly typed values
\* included), an invocation of a tool entry point yields exactly one message
\* and raises nothing; a failure is a message with an error key.
C4_OneMessageNoException ==
    call.tool \in EntryTools =>
        /\ raised = "none"
        /\ Len(messages) = 1
        /\ Selector \notin {Missing} /\ Selector.t # "str" =>
              "error" \in DOMAIN messages[1]

\* The steps of optimize that fail in the state the call starts from
PredictionFails == LoadModel(model_cache).raise # "none"

SnapshotFails == GetConnection.raise # "none"

PartialKeys == {"recommendations", "category_summary", "summary", "demand_forecast"}

\* C5: an optimize call whose prediction step (the model load included) or
\* whose inventory snapshot step fails yields exactly one message, which has
\* an error key and none of recommendations, category_summary, summary and
\* demand_forecast.
C5_OptimizeAllOrNothing ==
    [][\A p \in EntryOptimizerBags :
          ( /\ Optimize(p)
            /\ OptimizerConditions(p).raise = "none"
            /\ PredictionFails \/ SnapshotFails )
          => /\ raised' = "none"
             /\ Len(messages') = 1
             /\ "error" \in DOMAIN messages'[1]
             /\ DOMAIN messages'[1] \cap PartialKeys = {}]_vars

\* An optimize call has failed on the snapshot after its forecast succeeded
C5_Witness ==
    /\ call.tool = "order_optimizer"
    /\ OptimizerConditions(call.params).raise = "none"
    /\ model_cache.loaded
    /\ conn = "no_tables"
    /\ Len(messages) = 1
    /\ "error" \in DOMAIN messages[1]

\* C6: for a weather value outside the classes of the loaded model, _predict
\* raises nothing, returns a warning naming the value, and returns the
\* predictions it returns for "cloudy" with the other arguments equal.
C6_UnknownWeatherAsCloudy ==
    ( /\ call.tool = "_predict"
      /\ model_cache.loaded
      /\ call.params.weather \notin SeqToSet(model_cache.data.weather_classes) )
    => /\ raised = "none"
       /\ Len(messages) = 1
       /\ messages[1].warning # NoWarning
       /\ messages[1].warning.unsupported = call.params.weather
       /\ messages[1].predictions =
            PredictWith(model_cache.data, "cloudy", call.params.temperature,
                        call.params.humidity, call.params.day_of_week,
                        call.params.is_weekend, call.params.hour).predictions

\* "storm" has been predicted on a model whose forecast for "cloudy" differs
\* from the one for "sunny"
C6_Witness ==
    /\ call.tool = "_predict"
    /\ call.params.weather = "storm"
    /\ model_cache.loaded
    /\ Len(messages) = 1
    /\ messages[1].warning.unsupported = "storm"
    /\ Len(messages[1].predictions) = Len(ModelItems)
    /\ messages[1].predictions #
         PredictWith(model_cache.data, "sunny", call.params.temperature,
                     call.params.humidity, call.params.day_of_week,
                     call.params.is_weekend, call.params.hour).predictions

\* The safety_stock_days of the call is a number, or is missing or no number
NumericInput(v) == v.t \in {"int", "tenths", "bigint"}

NoNumberInput(v) == v.t \in {"missing", "null"} \/ (v.t = "str" /\ v.s = "bad")

\* The value the claim promises, in tenths
PromisedSafetyStock(v) ==
    LET x == CASE v.t = "int" -> 10 * v.n
               [] v.t = "tenths" -> v.n
               [] OTHER -> 10 * MaxSafetyStockDays
    IN  IF NoNumberInput(v) THEN 10
        ELSE IF x > 30 THEN 30 ELSE IF x < 5 THEN 5 ELSE x

\* C11: every numeric safety_stock_days is clamped to [0.5, 3.0] (above 3.0
\* to 3.0, below 0.5 to 0.5, inside unchanged) and a missing or non-numeric
\* one becomes 1.0; the call reports that value in conditions and uses it in
\* the calculation.
C11_SafetyStockClamped ==
    ( /\ call.tool = "order_optimizer"
      /\ call.params.weather.t \in {"missing", "str"}
      /\ NumericInput(call.params.safety_stock_days)
         \/ NoNumberInput(call.params.safety_stock_days) )
    => /\ raised = "none"
       /\ Len(messages) = 1
       /\ "conditions" \in DOMAIN messages[1] =>
            LET used == PromisedSafetyStock(call.params.safety_stock_days) IN
            /\ used \in 5..30
            /\ messages[1].conditions.safety_stock_days = used
            /\ \A k \in 1..Len(messages[1].recommendations) :
                 LET rec == messages[1].recommendations[k]
                     ratio == DemandInfo(messages[1].demand_forecast,
                                         rec.category).ratio
                 IN rec.adjusted_target * ratio.d * 10
                      <= rec.reorder_point * ratio.n * used
                    /\ rec.reorder_point * ratio.n * used
                      < (rec.adjusted_target + 1) * ratio.d * 10

\* C11 without the integers that no float can hold: the clamp as claimed
C11_ClampedWhenConvertible ==
    call.params.safety_stock_days.t # "bigint" => C11_SafetyStockClamped

-----------------------------------------------------------------------------
(* Claims about the per-item calculation of the order optimizer *)

\* A _calculate_orders call has just returned
OrdersMade == call.tool = "_calculate_orders"

Recommendations == messages[1]

BaseOrderOf(rec) ==
    IF rec.adjusted_target > rec.current_quantity
    THEN rec.adjusted_target - rec.current_quantity ELSE 0

\* The forecast entry that decides for a category is the last one naming it
Decides(i, category) ==
    LET preds == call.params.demand_predictions IN
    /\ preds[i].item = category
    /\ \A j \in (i + 1)..Len(preds) : preds[j].item # category

InForecast(category) ==
    \E i \in 1..Len(call.params.demand_predictions) : Decides(i, category)

\* predicted / base > 1.2 and predicted / base < 0.8 for the category
ForecastHigh(category) ==
    LET preds == call.params.demand_predictions IN
    \E i \in 1..Len(preds) :
        /\ Decides(i, category)
        /\ preds[i].base_demand > 0
        /\ 10 * preds[i].predicted_demand > 12 * preds[i].base_demand

ForecastLow(category) ==
    LET preds == call.params.demand_predictions IN
    \E i \in 1..Len(preds) :
        /\ Decides(i, category)
        /\ preds[i].base_demand > 0
        /\ 10 * preds[i].predicted_demand < 8 * preds[i].base_demand

\* C7 as stated: remaining_hours < 4 gives 0, 4 <= remaining_hours < 8 gives
\* floor(base_order / 2), and remaining_hours exactly 8.0 gives the full base
\* order.
C7_AsStated ==
    OrdersMade =>
      \A k \in 1..Len(Recommendations) :
        LET rec == Recommendations[k]
            hours == rec.remaining_hours_until_expiry
        IN /\ hours < 40 => rec.recommended_order_quantity = 0
           /\ (hours >= 40 /\ hours < 80) =>
                 rec.recommended_order_quantity = BaseOrderOf(rec) \div 2
           /\ hours = 80 => rec.recommended_order_quantity = BaseOrderOf(rec)

\* C7, amended: the expiry thresholds are strict. remaining_hours < 4 gives 0
\* and 4 <= remaining_hours < 8 gives floor(base_order / 2); at exactly 8.0
\* no expiry rule applies and the demand rules decide: floor(base_order / 2)
\* when the category's demand ratio is below 0.8, the full base order
\* otherwise.
C7_ExpiryThresholdsStrict ==
    OrdersMade =>
      \A k \in 1..Len(Recommendations) :
        LET rec == Recommendations[k]
            hours == rec.remaining_hours_until_expiry
        IN /\ hours < 40 => rec.recommended_order_quantity = 0
           /\ (hours >= 40 /\ hours < 80) =>
                 rec.recommended_order_quantity = BaseOrderOf(rec) \div 2
           /\ hours = 80 =>
                 rec.recommended_order_quantity =
                   IF ForecastLow(rec.category)
                   THEN BaseOrderOf(rec) \div 2 ELSE BaseOrderOf(rec)

\* An item at exactly 4.0 hours is halved and one at exactly 8.0 hours with
\* no demand drop is ordered in full, both with an odd base order above one
C7_Witness ==
    /\ OrdersMade
    /\ \E k, m \in 1..Len(Recommendations) :
         LET at4 == Recommendations[k]
             at8 == Recommendations[m]
         IN /\ at4.remaining_hours_until_expiry = 40
            /\ BaseOrderOf(at4) > 1 /\ BaseOrderOf(at4) % 2 = 1
            /\ at4.recommended_order_quantity = BaseOrderOf(at4) \div 2
            /\ at8.remaining_hours_until_expiry = 80
            /\ ~ForecastLow(at8.category)
            /\ BaseOrderOf(at8) > 1
            /\ at8.recommended_order_quantity = BaseOrderOf(at8)

\* C8: the rules are tried in the order expiry < 4h, expiry < 8h, ratio > 1.2,
\* ratio < 0.8, otherwise; the first that matches alone decides quantity and
\* note, so a matching expiry rule overrides every demand rule.
C8_FirstMatchDecides ==
    OrdersMade =>
      \A k \in 1..Len(Recommendations) :
        LET rec == Recommendations[k]
            hours == rec.remaining_hours_until_expiry
            qty == rec.recommended_order_quantity
            base == BaseOrderOf(rec)
        IN CASE hours < 40 -> rec.note.rule = "expiry_skip" /\ qty = 0
             [] hours >= 40 /\ hours < 80 ->
                  rec.note.rule = "expiry_half" /\ qty = base \div 2
             [] hours >= 80 /\ ForecastHigh(rec.category) ->
                  rec.note.rule = "demand_up" /\ qty = base
             [] hours >= 80 /\ ~ForecastHigh(rec.category)
                            /\ ForecastLow(rec.category) ->
                  rec.note.rule = "demand_down" /\ qty = base \div 2
             [] OTHER -> rec.note.rule = "normal" /\ qty = base

\* An item about to expire in a category whose demand rises is skipped although
\* its base order is positive, next to an item halved for expiry although
\* its demand falls
C8_Witness ==
    /\ OrdersMade
    /\ \E k, m \in 1..Len(Recommendations) :
         LET skipped == Recommendations[k]
             halved == Recommendations[m]
         IN /\ skipped.remaining_hours_until_expiry < 40
            /\ ForecastHigh(skipped.category)
            /\ BaseOrderOf(skipped) > 0
            /\ skipped.recommended_order_quantity = 0
            /\ skipped.note.rule = "expiry_skip"
            /\ halved.remaining_hours_until_expiry = 79
            /\ ForecastHigh(halved.category)
            /\ BaseOrderOf(halved) > 1
            /\ halved.note.rule = "expiry_half"

\* C9: for a safety-stock multiplier in [0.5, 3.0], every recommended
\* quantity lies between 0 and the base order max(0, adjusted_target -
\* current_quantity) and is that base order, its floor-half or 0.
C9_QuantityWithinBaseOrder ==
    (OrdersMade /\ call.params.safety_stock_days \in 5..30) =>
      \A k \in 1..Len(Recommendations) :
        LET rec == Recommendations[k]
            qty == rec.recommended_order_quantity
            base == BaseOrderOf(rec)
        IN /\ 0 <= qty /\ qty <= base
           /\ qty \in {base, base \div 2, 0}

\* A halved odd base order, an order in full and a base order of zero for an
\* item stocked above its target, in one call
C9_Witness ==
    /\ OrdersMade
    /\ call.params.safety_stock_days \in 5..30
    /\ \E k, m \in 1..Len(Recommendations) :
         LET half == Recommendations[k]
             none == Recommendations[m]
         IN /\ BaseOrderOf(half) >= 3 /\ BaseOrderOf(half) % 2 = 1
            /\ half.recommended_order_quantity = BaseOrderOf(half) \div 2
            /\ none.adjusted_target < none.current_quantity
            /\ none.recommended_order_quantity = 0

\* C10: a category without an entry in the forecast is given the demand
\* ratio 1.0: adjusted_target = floor(reorder_point * safety_stock_days), and
\* no demand rule halves or labels its items.
C10_AbsentCategoryRatioOne ==
    OrdersMade =>
      \A k \in 1..Len(Recommendations) :
        LET rec == Recommendations[k] IN
        ~InForecast(rec.category) =>
          /\ rec.demand_ratio = 100
          /\ rec.adjusted_target =
               (rec.reorder_point * call.params.safety_stock_days) \div 10
          /\ rec.note.rule \notin {"demand_up", "demand_down"}
          /\ rec.remaining_hours_until_expiry >= 80 =>
               rec.recommended_order_quantity = BaseOrderOf(rec)

\* A non-empty forecast that lacks the category of an item whose target is
\* rounded down and which is ordered in full
C10_Witness ==
    /\ OrdersMade
    /\ call.params.demand_predictions # <<>>
    /\ \E k \in 1..Len(Recommendations) :
         LET rec == Recommendations[k] IN
         /\ ~InForecast(rec.category)
         /\ (rec.reorder_point * call.params.safety_stock_days) % 10 # 0
         /\ rec.remaining_hours_until_expiry >= 80
         /\ BaseOrderOf(rec) > 0
         /\ rec.recommended_order_quantity = BaseOrderOf(rec)
         /\ rec.note.rule = "normal"


-----------------------------------------------------------------------------
(* Claims about the order of the results *)

\* a comes before b, or ties with it, in the order quantity descending,
\* category ascending, item name ascending
NotAfter(a, b) ==
    \/ a.recommended_order_quantity > b.recommended_order_quantity
    \/ /\ a.recommended_order_quantity = b.recommended_order_quantity
       /\ \/ Collate(a.category) < Collate(b.category)
          \/ /\ a.category = b.category
             /\ Collate(a.item_name) <= Collate(b.item_name)

C13_PredictionsOrdered ==
    ( /\ call.tool = "_predict"
      /\ raised = "none"
      /\ Len(messages) = 1 )
    => LET predictions == messages[1].predictions
           items == model_cache.data.items
       IN  /\ Len(predictions) = Len(items)
           /\ \A i, j \in 1..Len(predictions) :
                i < j =>
                  \/ Abs(predictions[i].change_percent)
                       > Abs(predictions[j].change_percent)
                  \/ /\ Abs(predictions[i].change_percent)
                          = Abs(predictions[j].change_percent)
                     /\ Position(items, predictions[i].item)
                          < Position(items, predictions[j].item)

\* A prediction has returned two categories of equal |change_percent|, one
\* rising and one falling, after a category of greater change that the item
\* list has behind them
C13_Witness ==
    /\ call.tool = "_predict"
    /\ raised = "none"
    /\ Len(messages) = 1
    /\ LET predictions == messages[1].predictions
           items == model_cache.data.items
       IN  \E i, j \in 2..Len(predictions) :
             /\ i < j
             /\ predictions[i].change_percent = 0 - predictions[j].change_percent
             /\ predictions[i].change_percent # 0
             /\ Position(items, predictions[1].item)
                  > Position(items, predictions[i].item)


-----------------------------------------------------------------------------
(* Claims about the urgency classification *)

Severity(urgency) ==
    CASE urgency = "high" -> 3 [] urgency = "medium" -> 2 [] OTHER -> 1

DefaultRules == seed_file.markdown_rules = [high |-> 2, medium |-> 4]

\* C14: for any configured thresholds, of two remaining times the shorter
\* is classified at least as severe as the longer; with the thresholds 2
\* and 4, up to 2.0 hours is high, above 2.0 and up to 4.0 hours is medium,
\* above 4.0 hours is low.
C14_UrgencyMonotone ==
    call.tool = "_get_urgency" =>
      /\ \A i, j \in 1..Len(messages) :
           messages[i].remaining < messages[j].remaining
             => Severity(messages[i].urgency) >= Severity(messages[j].urgency)
      /\ DefaultRules =>
           \A i \in 1..Len(messages) :
             messages[i].urgency =
               IF messages[i].remaining <= Hours(2) THEN "high"
               ELSE IF messages[i].remaining <= Hours(4) THEN "medium"
               ELSE "low"

\* With the thresholds 2 and 4, exactly 2.0 hours has been classified high
\* and exactly 4.0 hours medium
C14_Witness ==
    /\ call.tool = "_get_urgency"
    /\ DefaultRules
    /\ Len(messages) = 2
    /\ messages[1] = [remaining |-> Hours(2), urgency |-> "high"]
    /\ messages[2] = [remaining |-> Hours(4), urgency |-> "medium"]

\* With a high threshold above the medium one, a time between the two has
\* been classified high and a time beyond both low
C14_WitnessCrossed ==
    /\ call.tool = "_get_urgency"
    /\ seed_file.markdown_rules.high > seed_file.markdown_rules.medium
    /\ Len(messages) = 2
    /\ messages[1].remaining > Hours(seed_file.markdown_rules.medium)
    /\ messages[1].urgency = "high"
    /\ messages[2].urgency = "low"


-----------------------------------------------------------------------------
(* Claims about the demand rules at and below their thresholds *)

\* The forecast entry deciding for the category has this demand over this base
ForecastIs(category, predicted, base) ==
    LET preds == call.params.demand_predictions IN
    \E i \in 1..Len(preds) :
        /\ Decides(i, category)
        /\ preds[i].predicted_demand = predicted
        /\ preds[i].base_demand = base

\* The forecast ratio of the category is exactly 1.2
ForecastAtHighThreshold(category) ==
    LET preds == call.params.demand_predictions IN
    \E i \in 1..Len(preds) :
        /\ Decides(i, category)
        /\ preds[i].base_demand > 0
        /\ 10 * preds[i].predicted_demand = 12 * preds[i].base_demand

\* floor(reorder_point * ratio * safety_stock_days) from the inputs of the call
TargetOf(rec) ==
    LET preds == call.params.demand_predictions
        i == CHOOSE i \in 1..Len(preds) : Decides(i, rec.category)
    IN  (rec.reorder_point * preds[i].predicted_demand
           * call.params.safety_stock_days)
        \div (preds[i].base_demand * 10)

\* The recommendation is for quantity 2, reorder point 10, 24 hours left
ExampleItem(rec) ==
    /\ rec.current_quantity = 2
    /\ rec.reorder_point = 10
    /\ rec.remaining_hours_until_expiry = 240

\* C15: a demand ratio of exactly 1.2 is no demand increase: an item not
\* within 8 hours of expiry gets the full base order with the normal note;
\* for quantity 2, reorder point 10, 24 hours left, forecast 60 over base 50
\* and safety_stock_days 1 the target is 12, the base order 10 and the
\* recommended quantity 10.
C15_RatioAtThresholdIsNormal ==
    OrdersMade =>
      \A k \in 1..Len(Recommendations) :
        LET rec == Recommendations[k] IN
        /\ ( /\ ForecastAtHighThreshold(rec.category)
             /\ rec.remaining_hours_until_expiry >= 10 * HalfHours )
           => /\ rec.note = Note("normal", 0)
              /\ rec.recommended_order_quantity = BaseOrderOf(rec)
              /\ rec.demand_ratio = 120
        /\ ( /\ ExampleItem(rec)
             /\ ForecastIs(rec.category, 60, 50)
             /\ call.params.safety_stock_days = 10 )
           => /\ rec.adjusted_target = 12
              /\ BaseOrderOf(rec) = 10
              /\ rec.recommended_order_quantity = 10
              /\ rec.note = Note("normal", 0)

\* The example of C15 has been calculated
C15_Witness ==
    /\ OrdersMade
    /\ call.params.safety_stock_days = 10
    /\ \E k \in 1..Len(Recommendations) :
         /\ ExampleItem(Recommendations[k])
         /\ ForecastIs(Recommendations[k].category, 60, 50)
         /\ Recommendations[k].recommended_order_quantity = 10

\* C16: with a demand ratio below 0.8 an item not within 8 hours of expiry
\* gets floor(base_order / 2), base_order being max(0, floor(reorder_point *
\* ratio * safety_stock_days) - quantity), with the demand-decrease note;
\* for quantity 2, reorder point 10, forecast 35 over base 50 and
\* safety_stock_days 1 the target is 7, the base order 5 and the recommended
\* quantity 2.
C16_LowDemandHalves ==
    OrdersMade =>
      \A k \in 1..Len(Recommendations) :
        LET rec == Recommendations[k] IN
        /\ ( /\ ForecastLow(rec.category)
             /\ rec.remaining_hours_until_expiry >= 10 * HalfHours )
           => /\ rec.adjusted_target = TargetOf(rec)
              /\ rec.recommended_order_quantity
                   = Max(0, TargetOf(rec) - rec.current_quantity) \div 2
              /\ rec.note.rule = "demand_down"
        /\ ( /\ ExampleItem(rec)
             /\ ForecastIs(rec.category, 35, 50)
             /\ call.params.safety_stock_days = 10 )
           => /\ rec.adjusted_target = 7
              /\ BaseOrderOf(rec) = 5
              /\ rec.recommended_order_quantity = 2
              /\ rec.note = Note("demand_down", 0 - 30)

\* The example of C16 has been calculated
C16_Witness ==
    /\ OrdersMade
    /\ call.params.safety_stock_days = 10
    /\ \E k \in 1..Len(Recommendations) :
         /\ ExampleItem(Recommendations[k])
         /\ ForecastIs(Recommendations[k].category, 35, 50)
         /\ Recommendations[k].recommended_order_quantity = 2


-----------------------------------------------------------------------------
(* Claims about the result of optimize *)

\* The last call was an optimize that yielded a result and no error
OptimizeSucceeded ==
    /\ call.tool = "order_optimizer"
    /\ raised = "none"
    /\ Len(messages) = 1
    /\ "error" \notin DOMAIN messages[1]

\* The warning of the prediction step of the last optimize call
PredictionWarning ==
    LET given == OptimizerConditions(call.params)
    IN  PredictWith(model_cache.data, given.weather, given.temperature,
                    given.humidity, Weekday(now), IsWeekend(now),
                    HourOfDay(now)).warning

\* C17: a successful optimize result has the field weather_warning exactly
\* when the prediction step returned a warning, the field is that warning
\* unchanged, and recommendations, category_summary and summary are present.
C17_WarningPassedOn ==
    OptimizeSucceeded =>
      /\ "weather_warning" \in DOMAIN messages[1] <=> PredictionWarning # NoWarning
      /\ "weather_warning" \in DOMAIN messages[1]
           => messages[1].weather_warning = PredictionWarning
      /\ {"recommendations", "category_summary", "summary"} \subseteq DOMAIN messages[1]

\* An optimize for a weather the model does not know has succeeded with
\* recommendations and the warning
C17_Witness ==
    /\ OptimizeSucceeded
    /\ PredictionWarning # NoWarning
    /\ "weather_warning" \in DOMAIN messages[1]
    /\ messages[1].weather_warning.unsupported = OptimizerConditions(call.params).weather
    /\ Len(messages[1].recommendations) > 0

\* An optimize for a weather the model knows has succeeded without warning
C17_WitnessKnown ==
    /\ OptimizeSucceeded
    /\ PredictionWarning = NoWarning
    /\ Len(messages[1].recommendations) > 0


-----------------------------------------------------------------------------
(* Claims about add_stock and remove_stock *)

\* The call is an add_stock without item_id, with a name, a category and a
\* positive quantity: it creates a new item under a generated id
CreatesWithoutId(p) ==
    /\ p \in AddStockBags
    /\ StrParam(p.item_id) = [raise |-> "none", s |-> ""]
    /\ StrParam(p.item_name).raise = "none" /\ StrParam(p.item_name).s # ""
    /\ StrParam(p.category).raise = "none" /\ StrParam(p.category).s # ""
    /\ p.quantity.t = "int" /\ p.quantity.n > 0

\* The numeric suffixes of the item ids of an inventory
NumericSuffixes(inv) == {IdSuffix(id) : id \in DOMAIN inv} \ {-1}

\* The id the generation promises: INV and one more than the largest suffix
PromisedId(inv) ==
    FormatItemId(IF NumericSuffixes(inv) = {} THEN 1
                 ELSE SetMax(NumericSuffixes(inv)) + 1)

GeneratedIdAsPromised(p, db) ==
    /\ raised' = "none"
    /\ IsSuccess(messages')
    /\ messages'[1].item_id = PromisedId(db.inventory)
    /\ messages'[1].item_id \notin DOMAIN db.inventory
    /\ DOMAIN inventory' = DOMAIN db.inventory \cup {messages'[1].item_id}

\* C18: an add_stock that creates a new item without an item_id, after any
\* earlier add_stock calls (also ones that supplied an item_id of their own),
\* succeeds with the id INV followed by one more than the largest existing
\* numeric suffix, an id no item of the inventory has.
C18_GeneratedIdFresh ==
    [][ \A p \in AddStockBags :
          LET db == GetConnection
          IN  (Mutate(p) /\ db.raise = "none" /\ CreatesWithoutId(p))
              => GeneratedIdAsPromised(p, db) ]_vars

\* The same while every item id of the inventory ends in a number
C18_GeneratedIdFreshAmongNumbered ==
    [][ \A p \in AddStockBags :
          LET db == GetConnection
          IN  ( /\ Mutate(p)
                /\ db.raise = "none"
                /\ CreatesWithoutId(p)
                /\ \A id \in DOMAIN db.inventory : IdSuffix(id) # -1 )
              => GeneratedIdAsPromised(p, db) ]_vars

\* An item has been created under a generated id
C18_Generated ==
    /\ IsSuccess(messages)
    /\ CreatesWithoutId(call.params)
    /\ messages[1].item_id = "INV003"
    /\ "INV003" \in DOMAIN inventory


\* The call is an add_stock with a positive quantity whose item_id is no
\* item of the inventory
AddsUnknownItem(p, db) ==
    /\ p \in AddStockBags
    /\ db.raise = "none"
    /\ StrParam(p.item_id).raise = "none"
    /\ StrParam(p.item_name).raise = "none"
    /\ StrParam(p.category).raise = "none"
    /\ StrParam(p.item_id).s \notin DOMAIN db.inventory
    /\ QuantityCheck(p.quantity) = "valid"

LacksNameOrCategory(p) ==
    StrParam(p.item_name).s = "" \/ StrParam(p.category).s = ""

\* A validation error, and neither a record nor a movement
RejectedNewItem(db) ==
    /\ raised' = "none"
    /\ IsError(messages')
    /\ messages'[1].error.text \in {"item_name required", "category required"}
    /\ inventory' = db.inventory
    /\ stock_movements' = db.stock_movements

\* Exactly one record more, with the given quantity and the default levels
CreatedNewItem(p, db) ==
    /\ raised' = "none"
    /\ IsSuccess(messages')
    /\ \E new \in DOMAIN inventory' \ DOMAIN db.inventory :
         /\ DOMAIN inventory' = DOMAIN db.inventory \cup {new}
         /\ inventory'[new].quantity = p.quantity.n
         /\ inventory'[new].min_stock_level = 5
         /\ inventory'[new].reorder_point = 10
         /\ inventory'[new].item_name = StrParam(p.item_name).s
         /\ inventory'[new].category = StrParam(p.category).s
    /\ \A id \in DOMAIN db.inventory : inventory'[id] = db.inventory[id]

\* C19: an add_stock whose item_id is no existing item and that lacks a
\* non-empty item_name or category returns a validation error and creates
\* neither a record nor a movement; with both it creates exactly one record
\* with the given quantity, min_stock_level 5 and reorder_point 10.
C19_NewItemValidated ==
    [][ \A p \in AddStockBags :
          LET db == GetConnection
          IN  (Mutate(p) /\ AddsUnknownItem(p, db))
              => IF LacksNameOrCategory(p) THEN RejectedNewItem(db)
                 ELSE CreatedNewItem(p, db) ]_vars

\* The same for the calls that either supply an item_id or find every item
\* id of the inventory ending in a number
C19_NewItemValidatedAmongNumbered ==
    [][ \A p \in AddStockBags :
          LET db == GetConnection
          IN  ( /\ Mutate(p)
                /\ AddsUnknownItem(p, db)
                /\ \/ StrParam(p.item_id).s # ""
                   \/ \A id \in DOMAIN db.inventory : IdSuffix(id) # -1 )
              => IF LacksNameOrCategory(p) THEN RejectedNewItem(db)
                 ELSE CreatedNewItem(p, db) ]_vars

\* A new item without category has been rejected after one was created
C19_Rejected ==
    /\ call.tool = "inventory_manager"
    /\ call.params \in AddStockBags
    /\ IsError(messages)
    /\ messages[1].error.text = "category required"
    /\ \E id \in DOMAIN inventory :
         /\ inventory[id].min_stock_level = 5
         /\ inventory[id].reorder_point = 10
         /\ id \notin {"INV001", "INV002"}


\* The quantity of the call is missing, zero or negative
NoQuantity(p) ==
    \/ p.quantity.t \in {"missing", "null"}
    \/ p.quantity.t = "int" /\ p.quantity.n <= 0

\* C20: add_stock and remove_stock return a validation error whenever the
\* quantity is missing, zero or negative, and have then neither opened the
\* store nor read or changed a row of it.
C20_QuantityValidatedFirst ==
    [][ \A p \in MutationBags :
          (Mutate(p) /\ NoQuantity(p))
          => /\ raised' = "none"
             /\ IsError(messages')
             /\ messages'[1].error.text
                  \in IF p \in AddStockBags THEN {"quantity must be 1 or more"}
                      ELSE {"quantity must be 1 or more", "item_id required"}
             /\ messages'[1].error.values = <<>>
             /\ UNCHANGED <<conn, inventory, stock_movements>> ]_vars

\* A remove_stock without quantity has been rejected while the store was
\* still unopened
C20_Witness ==
    /\ call.tool = "inventory_manager"
    /\ call.params \in RemoveStockBags
    /\ call.params.quantity = Missing
    /\ IsError(messages)
    /\ messages[1].error.text = "quantity must be 1 or more"
    /\ conn = "None"

\* An add_stock of a negative quantity has been rejected on an opened store
C20_WitnessAdd ==
    /\ call.tool = "inventory_manager"
    /\ call.params \in AddStockBags
    /\ call.params.quantity = IntVal(-1)
    /\ IsError(messages)
    /\ messages[1].error.text = "quantity must be 1 or more"
    /\ conn = "ready"


-----------------------------------------------------------------------------
(* Claims about the model cache *)

\* The predictions of the last call, computed from the given model data
PredictionsFrom(data) ==
    PredictWith(data, call'.params.weather, call'.params.temperature,
                call'.params.humidity, call'.params.day_of_week,
                call'.params.is_weekend, call'.params.hour).predictions

\* C21: once the model is loaded, predict calls reuse the cached object and
\* never read the artifact again, whatever the artifact has become; the
\* cache changes only by a load into the empty cache or by a reset to
\* empty, and after a reset the next predict call loads the artifact again.
C21_ModelLoadedOnce ==
    [][ /\ (model_cache.loaded /\ call'.tool # "reset")
           => model_cache' = model_cache
        /\ (model_cache.loaded /\ call'.tool = "_predict")
           => /\ raised' = "none"
              /\ messages'[1].predictions = PredictionsFrom(model_cache.data)
        /\ model_cache' # model_cache
           => \/ call'.tool = "reset" /\ model_cache' = NotLoaded
              \/ /\ call'.tool = "_predict"
                 /\ ~model_cache.loaded
                 /\ model_cache' = [loaded |-> TRUE, data |-> artifact]
        /\ (~model_cache.loaded /\ call'.tool = "_predict" /\ artifact.readable)
           => model_cache' = [loaded |-> TRUE, data |-> artifact] ]_vars

\* A prediction has been served from the cache while the artifact on disk
\* was another one that predicts otherwise
C21_Witness ==
    /\ call.tool = "_predict"
    /\ model_cache.loaded
    /\ artifact.readable
    /\ artifact # model_cache.data
    /\ Len(messages) = 1
    /\ messages[1].predictions #
         PredictWith(artifact, call.params.weather, call.params.temperature,
                     call.params.humidity, call.params.day_of_week,
                     call.params.is_weekend, call.params.hour).predictions

\* After a reset a prediction has loaded the artifact again
C21_WitnessReloaded ==
    /\ call.tool = "_predict"
    /\ model_cache.loaded
    /\ model_cache.data = artifact
    /\ artifact.model.weekend # 0


-----------------------------------------------------------------------------
(* Claims about the TTL file store *)

\* The age of the entry is at most the TTL
Fresh(entry, t) == (t - entry.created_at) * SecondsPerTick <= FILE_TTL_SECONDS

C22_WitnessExpired ==
    /\ call.tool = "get_file"
    /\ call.params.file_id \in FileIds \ DOMAIN store
    /\ messages = <<Null>>
    /\ DOMAIN store # {}
    /\ now > FILE_TTL_SECONDS \div SecondsPerTick


-----------------------------------------------------------------------------
(* Claims about the movement type *)

\* The reason a remove_stock call records
RecordedReason(p) == ReasonParam(p.reason).r

HasKeyword(reason) ==
    \E i \in 1..(Len(reason) - 1) :
        \/ reason[i] = "hai" /\ reason[i + 1] = "ki2"
        \/ reason[i] = "ki" /\ reason[i + 1] = "gen"

\* C23: a successful remove_stock records the movement type expired exactly
\* when its reason contains the disposal or the expiry keyword, and out
\* otherwise, also for the default reason of a call without one; add_stock
\* always records in.
C23_MovementTypeByReason ==
    [][ \A p \in ReasonBags \cup MutationBags :
          LET row == stock_movements'[Len(stock_movements')]
          IN  (Mutate(p) /\ IsSuccess(messages'))
              => /\ Len(stock_movements') = Len(GetConnection.stock_movements) + 1
                 /\ IF p \in AddStockBags
                    THEN row.movement_type = "in"
                    ELSE /\ row.reason = RecordedReason(p)
                         /\ row.movement_type =
                              IF HasKeyword(row.reason) THEN "expired" ELSE "out"
                         /\ p.reason \in {Missing, Null, ReasonVal(<<>>)}
                              => row.reason = DefaultReason /\ row.movement_type = "out" ]_vars

\* The ledger holds a removal classified expired for the expiry keyword
\* inside its reason and a removal classified out for a reason that has
\* the first character of one keyword and the second of the other
C23_Witness ==
    /\ IsSuccess(messages)
    /\ \E j, k \in 1..Len(stock_movements) :
         /\ stock_movements[j].reason = <<"shou", "mi", "ki", "gen">>
         /\ stock_movements[j].movement_type = "expired"
         /\ stock_movements[k].reason = <<"hai", "ki">>
         /\ stock_movements[k].movement_type = "out"


-----------------------------------------------------------------------------
(* Claims about the read-only actions of the inventory manager *)

OrderRecommendationBag == [NoParams EXCEPT !.action = StrVal("order_recommendation")]

\* The recommended quantities of the recommendations of one category, summed
RecommendedFor(recs, categories) ==
    SeqSum([i \in 1..Len(recs) |->
              IF recs[i].category \in categories
              THEN recs[i].recommended_order_quantity ELSE 0])

\* What the list of an order_recommendation promises for the inventory inv
\* at the time t
OrdersAsPromised(result, inv, t) ==
    LET recs == result.recommendations
        due == {id \in DOMAIN inv : inv[id].quantity <= inv[id].reorder_point}
    IN  /\ {recs[i].item_id : i \in 1..Len(recs)} = due
        /\ Len(recs) = Cardinality(due)
        /\ \A i \in 1..Len(recs) :
             LET r == inv[recs[i].item_id]
                 remaining == r.expires_at - t
                 base_order == r.reorder_point + 5 - r.quantity
             IN  /\ recs[i].category = r.category
                 /\ recs[i].recommended_order_quantity =
                      IF remaining < 4 * TicksPerHour THEN 0
                      ELSE IF remaining < 8 * TicksPerHour THEN base_order \div 2
                      ELSE base_order
        /\ DOMAIN result.category_orders = {recs[i].category : i \in 1..Len(recs)}
        /\ \A c \in DOMAIN result.category_orders :
             result.category_orders[c] = RecommendedFor(recs, {c})
        /\ result.summary.total_quantity_to_order
             = RecommendedFor(recs, DOMAIN result.category_orders)
        /\ result.summary.total_items = Len(recs)

\* C24: order_recommendation lists exactly the items with quantity <=
\* reorder_point and recommends for each 0 if less than 4 hours remain,
\* floor((reorder_point + 5 - quantity) / 2) if at least 4 and less than 8
\* hours remain, and reorder_point + 5 - quantity otherwise; the totals per
\* category and total_quantity_to_order are the sums of the recommended
\* quantities listed.
C24_OrderRecommendation ==
    [][ LET db == GetConnection
        IN  ( /\ call'.params = OrderRecommendationBag
                /\ now' = now
                /\ db.raise = "none" )
            => /\ raised' = "none"
               /\ Len(messages') = 1
               /\ "recommendations" \in DOMAIN messages'[1]
               /\ OrdersAsPromised(messages'[1], db.inventory, now) ]_vars

\* A list recommends nothing for an item with less than 4 hours left and
\* the floor of an odd half for an item with less than 8
C24_Witness ==
    /\ call.params = OrderRecommendationBag
    /\ Len(messages) = 1
    /\ "recommendations" \in DOMAIN messages[1]
    /\ \E i, j \in 1..Len(messages[1].recommendations) :
         LET a == messages[1].recommendations[i]
             b == messages[1].recommendations[j]
         IN  /\ a.recommended_order_quantity = 0
             /\ a.remaining_hours_until_expiry = 40
             /\ b.recommended_order_quantity = 2
             /\ b.reorder_point + 5 - b.current_quantity = 5

\* A list leaves out an item whose quantity is above its reorder point
C24_WitnessOmitted ==
    /\ call.params = OrderRecommendationBag
    /\ Len(messages) = 1
    /\ "recommendations" \in DOMAIN messages[1]
    /\ \E id \in DOMAIN inventory :
         /\ inventory[id].quantity > inventory[id].reorder_point
         /\ \A i \in 1..Len(messages[1].recommendations) :
              messages[1].recommendations[i].item_id # id

\* The recommended quantities of the recommendations at the given positions
QuantityAt(recs, positions) ==
    LET sum[P \in SUBSET positions] ==
            IF P = {} THEN 0
            ELSE LET i == CHOOSE k \in P : TRUE
                 IN  recs[i].recommended_order_quantity + sum[P \ {i}]
    IN  sum[positions]

\* C25: in every successful optimize result total_items is the number of
\* recommendations, items_to_order the number of them with a positive
\* quantity, total_order_quantity the sum of all recommended quantities and
\* of the order_quantity values of category_summary, and the demand_ratio of
\* a category in category_summary is that of every item of the category.
C25_RollUpsAgree ==
    OptimizeSucceeded =>
        LET result == messages[1]
            recs == result.recommendations
            all == 1..Len(recs)
            of_cat(c) == {i \in all : recs[i].category = c}
            cats == DOMAIN result.category_summary
            ordered[C \in SUBSET cats] ==
                IF C = {} THEN 0
                ELSE LET c == CHOOSE d \in C : TRUE
                     IN  result.category_summary[c].order_quantity + ordered[C \ {c}]
        IN  /\ result.summary.total_items = Len(recs)
            /\ result.summary.items_to_order =
                 Cardinality({i \in all : recs[i].recommended_order_quantity > 0})
            /\ result.summary.total_order_quantity = QuantityAt(recs, all)
            /\ cats = {recs[i].category : i \in all}
            /\ \A c \in cats :
                 result.category_summary[c].order_quantity = QuantityAt(recs, of_cat(c))
            /\ result.summary.total_order_quantity = ordered[cats]
            /\ \A i \in all :
                 result.category_summary[recs[i].category].demand_ratio
                   = recs[i].demand_ratio

\* A successful optimize with two items of one category to order and an
\* item of another category
C25_Witness ==
    /\ OptimizeSucceeded
    /\ \E i, j, k \in 1..Len(messages[1].recommendations) :
         LET recs == messages[1].recommendations
         IN  /\ i # j
             /\ recs[i].category = recs[j].category
             /\ recs[k].category # recs[i].category
             /\ recs[i].recommended_order_quantity > 0
             /\ recs[j].recommended_order_quantity > 0
             /\ recs[i].demand_ratio # recs[k].demand_ratio

\* The item ids a list or check_expiration result shows
ShownIds(result) ==
    IF "items" \in DOMAIN result
    THEN {result.items[i].item_id : i \in 1..Len(result.items)}
    ELSE {result.alerts[i].item_id : i \in 1..Len(result.alerts)}

\* C26: no inventory record is ever deleted: a remove_stock that takes an
\* item to 0 leaves its record with quantity 0, an add_stock with the id of
\* such an item raises the quantity of that record from 0, and list and
\* check_expiration leave such an item out.
C26_RecordKept ==
    [][ LET db == GetConnection
            called(p) == call'.params = p /\ now' = now /\ db.raise = "none"
            emptied == IsSuccess(messages') /\ messages'[1].action = "remove_stock"
                         /\ messages'[1].new_quantity = 0
        IN  /\ DOMAIN inventory \subseteq DOMAIN inventory'
            /\ (now' = now /\ emptied) =>
                  /\ messages'[1].item_id \in DOMAIN inventory'
                  /\ inventory'[messages'[1].item_id].quantity = 0
            /\ \A id \in DOMAIN db.inventory :
                  db.inventory[id].quantity = 0 =>
                    /\ called(Bag(StrVal("add_stock"), StrVal(id), IntVal(1))) =>
                          /\ IsSuccess(messages')
                          /\ messages'[1].previous_quantity = 0
                          /\ messages'[1].new_quantity = 1
                          /\ inventory' = [db.inventory EXCEPT ![id].quantity = 1]
                    /\ ( /\ \/ called([NoParams EXCEPT !.action = StrVal("list")])
                             \/ called([NoParams EXCEPT !.action = StrVal("check_expiration")])
                         /\ raised' = "none" ) =>
                          /\ Len(messages') = 1
                          /\ id \notin ShownIds(messages'[1])
                          /\ \A other \in DOMAIN db.inventory :
                                db.inventory[other].quantity > 0
                                  => other \in ShownIds(messages'[1]) ]_vars

\* An item taken to 0 by remove_stock has been stocked again under its id
C26_Witness ==
    /\ IsSuccess(messages)
    /\ messages[1].action = "add_stock"
    /\ "previous_quantity" \in DOMAIN messages[1]
    /\ messages[1].previous_quantity = 0
    /\ \E i \in 1..Len(stock_movements) :
         /\ stock_movements[i].item_id = messages[1].item_id
         /\ stock_movements[i].movement_type = "out"
    /\ Cardinality(DOMAIN inventory) = 2

\* A list that shows one item and leaves out the one that has run out
C26_WitnessOmitted ==
    /\ call.params = [NoParams EXCEPT !.action = StrVal("list")]
    /\ raised = "none"
    /\ Len(messages) = 1
    /\ \E id \in DOMAIN inventory :
         /\ inventory[id].quantity = 0
         /\ \E i \in 1..Len(stock_movements) :
              /\ stock_movements[i].item_id = id
              /\ stock_movements[i].movement_type = "out"
         /\ id \notin ShownIds(messages[1])
    /\ ShownIds(messages[1]) # {}

\* The quantity of an item when the tables were created: that of the seed
\* file, and 0 for an item created later
QuantityAtInitialisation(id) ==
    IF id \in DOMAIN seed_file.sample_inventory
    THEN seed_file.sample_inventory[id].quantity
    ELSE 0

\* What a ledger row adds to the stock of its item
SignedQuantity(mov) ==
    CASE mov.movement_type = "in" -> mov.quantity
      [] mov.movement_type \in {"out", "expired"} -> 0 - mov.quantity
      [] OTHER -> 0

\* The net of the rows of an item appended after the seeded sample rows
NetSinceInitialisation(id) ==
    LET seeded == Len(seed_file.sample_movements)
        net[n \in seeded..Len(stock_movements)] ==
            IF n = seeded THEN 0
            ELSE net[n - 1] + IF stock_movements[n].item_id = id
                              THEN SignedQuantity(stock_movements[n])
                              ELSE 0
    IN  net[Len(stock_movements)]

\* C27: after any sequence of add_stock and remove_stock calls the quantity
\* of each item is its quantity at initialisation (0 for an item created
\* later) plus the in movements minus the out and expired movements
\* appended for it since.
C27_StockConserved ==
    conn = "ready" =>
        \A id \in DOMAIN inventory :
            inventory[id].quantity
              = QuantityAtInitialisation(id) + NetSinceInitialisation(id)

\* An item has been created after initialisation and a seeded item sold
C27_Witness ==
    /\ conn = "ready"
    /\ \E id \in DOMAIN inventory \ DOMAIN seed_file.sample_inventory :
         inventory[id].quantity > 0
    /\ \E id \in DOMAIN seed_file.sample_inventory :
         \E j \in (Len(seed_file.sample_movements) + 1)..Len(stock_movements) :
            /\ stock_movements[j].item_id = id
            /\ stock_movements[j].movement_type = "out"
            /\ inventory[id].quantity < seed_file.sample_inventory[id].quantity

\* A seeded item has been restocked and written off as expired
C27_WitnessExpired ==
    /\ conn = "ready"
    /\ \E id \in DOMAIN seed_file.sample_inventory :
         \E i, j \in (Len(seed_file.sample_movements) + 1)..Len(stock_movements) :
            /\ stock_movements[i].item_id = id
            /\ stock_movements[i].movement_type = "in"
            /\ stock_movements[j].item_id = id
            /\ stock_movements[j].movement_type = "expired"

\* C28: a mutation that returns an error inserts or updates no inventory
\* row and appends no movement row; at most the tables are created from
\* the seed file, when the call is the first to open the database.
C28_RejectionLeavesStore ==
    [][ LET db == GetConnection
        IN  ( /\ now' = now
              /\ raised' = "none"
              /\ IsError(messages') )
            => \/ /\ inventory' = inventory
                  /\ stock_movements' = stock_movements
                  /\ conn' = conn
               \/ /\ conn = "None"
                  /\ inventory' = InitInventory(seed_file, now)
                  /\ stock_movements' = InitMovements(seed_file, now) ]_vars

\* A removal of an unknown item is rejected after the store has changed
C28_Witness ==
    /\ IsError(messages)
    /\ messages[1].error.text = "item not found"
    /\ conn = "ready"
    /\ Len(stock_movements) > Len(seed_file.sample_movements)

\* A new item without a category is rejected after the store has changed
C28_WitnessNewItem ==
    /\ IsError(messages)
    /\ messages[1].error.text = "category required"
    /\ conn = "ready"
    /\ Len(stock_movements) > Len(seed_file.sample_movements)

\* An invalid quantity is rejected before the database has been opened
C28_WitnessQuantity ==
    /\ IsError(messages)
    /\ messages[1].error.text = "quantity must be 1 or more"
    /\ conn = "None"

\* A removal without an item id is rejected after the store has changed
C28_WitnessItemId ==
    /\ IsError(messages)
    /\ messages[1].error.text = "item_id required"
    /\ conn = "ready"
    /\ Len(stock_movements) > Len(seed_file.sample_movements)

\* The mutations whose outcome is compared before and after a read: a
\* restock, a new item, a sale and a refused sale
SecondMutations ==
    { Bag(StrVal("add_stock"), StrVal("INV001"), IntVal(1)),
      [Bag(StrVal("add_stock"), Missing, IntVal(1))
         EXCEPT !.item_name = StrVal("tuna onigiri"), !.category = StrVal("onigiri")],
      Bag(StrVal("remove_stock"), StrVal("INV002"), IntVal(1)),
      Bag(StrVal("remove_stock"), StrVal("INV001"), IntVal(2)) }

\* What a mutation called now would return and leave behind
MutationOutcome(p) == Dispatch(ActionParam(p.action).s, p, <<>>, <<>>)

\* C29: list, check_expiration, low_stock_alert, order_recommendation,
\* movement_history and optimize change no inventory record and no ledger
\* row (at most the tables are created from the seed file, when the call is
\* the first to open the database), so a mutation called after one of them
\* returns what it would have returned before it.
C29_ReadsChangeNothing ==
    [][ ( /\ now' = now
          /\ \/ call'.tool = "order_optimizer"
             \/ /\ call'.tool = "inventory_manager"
                /\ call'.params \in StoreQueryBags )
        => /\ \/ /\ inventory' = inventory
                 /\ stock_movements' = stock_movements
              \/ /\ conn = "None"
                 /\ inventory' = InitInventory(seed_file, now)
                 /\ stock_movements' = InitMovements(seed_file, now)
           /\ \A p \in SecondMutations :
                LET before == MutationOutcome(p)
                    after == MutationOutcome(p)'
                IN  /\ (after.raise = "none") = (before.raise = "none")
                    /\ [after EXCEPT !.raise = "", !.conn = ""]
                         = [before EXCEPT !.raise = "", !.conn = ""] ]_vars

\* A successful optimize has read a store that two mutations had changed
C29_Witness ==
    /\ OptimizeSucceeded
    /\ Len(stock_movements) > Len(seed_file.sample_movements) + 1
    /\ \E id \in DOMAIN inventory : inventory[id].quantity = 0

\* A movement_history has read a ledger that two mutations had extended
C29_WitnessHistory ==
    /\ call.tool = "inventory_manager"
    /\ call.params = [NoParams EXCEPT !.action = StrVal("movement_history")]
    /\ raised = "none"
    /\ Len(messages) = 1
    /\ "error" \notin DOMAIN messages[1]
    /\ Len(stock_movements) > Len(seed_file.sample_movements) + 1

\* No call is between its SELECT and its return
NoCallInFlight == \A c \in CallerIds : callers[c].pc \in {"idle", "done"}

\* Every item holds what it held at initialisation plus the net of its rows
Conserved ==
    \A id \in DOMAIN inventory :
        inventory[id].quantity
          = QuantityAtInitialisation(id) + NetSinceInitialisation(id)

\* C30 as stated: however the statements of two add_stock and remove_stock
\* calls interleave, the stored quantity stays >= 0 and, once the calls have
\* returned, equals the initial quantity plus the net of the movements in the
\* ledger.
C30_InterleavedConserved ==
    /\ \A id \in DOMAIN inventory : inventory[id].quantity >= 0
    /\ (conn = "ready" /\ NoCallInFlight) => Conserved

\* C30 as amended: however the statements interleave, the stored quantity
\* stays >= 0 and a call that returns success has appended its movement;
\* once the calls have returned, the quantity equals the initial quantity
\* plus the net of the ledger exactly if no call wrote the quantity of an
\* item between another call's read of it and that call's write.
C30_ConservedUnlessOverwritten ==
    /\ \A id \in DOMAIN inventory : inventory[id].quantity >= 0
    /\ Len(stock_movements) =
         (IF conn = "ready" THEN Len(seed_file.sample_movements) ELSE 0)
           + Cardinality({c \in CallerIds : callers[c].result = "success"})
    /\ (conn = "ready" /\ NoCallInFlight) =>
         (Conserved <=> \A c \in CallerIds : ~callers[c].lost)

\* Two calls on one item have returned, one of them having written over
\* the other's quantity
C30_Witness ==
    /\ \A c \in CallerIds : callers[c].pc = "done" /\ callers[c].result = "success"
    /\ \E c \in CallerIds : callers[c].lost
    /\ ~Conserved

\* Two calls on one item have returned, one after the other
C30_WitnessSequential ==
    /\ \A c \in CallerIds : callers[c].pc = "done" /\ callers[c].result = "success"
    /\ \A c \in CallerIds :
         /\ ~callers[c].lost
         /\ StrParam(callers[c].params.item_id).s = "INV001"
    /\ Conserved

=============================================================================
